---- MODULE Spec2Model ----
(***************************************************************************)
(* Test-case execution and reporting harness of the user-registration      *)
(* test scripts: the simulated runner (simulated_registration_test.py),    *)
(* the standalone runner (standalone_test_runner.py) and the two browser   *)
(* runners (selenium_registration_tests.py, selenium_standalone_test.py).  *)
(*                                                                         *)
(* Python strings that the code measures or searches (payload fields,      *)
(* expected substrings, error messages) are sequences of one-character     *)
(* strings, so len() is Len and "x in s" is a substring search.  Strings   *)
(* that are only stored and compared (test ids, descriptions, browser      *)
(* result messages) are TLA+ strings.  Wall-clock readings (start_time,    *)
(* execution_time, timestamp) are not part of the modelled records.        *)
(***************************************************************************)
EXTENDS Integers, Sequences, FiniteSets, TLC

VARIABLES
    runner,        \* which script runs: "simulated", "standalone", "selenium",
                   \* "selenium_standalone", "demo"
    pc,            \* position of the run
    idx,           \* number of catalog cases already started in this run
    cur,           \* index of the case being executed, 0 when none
    test_results,  \* self.test_results, the result log
    executed,      \* history: test ids in the order their execution started
    env,           \* history: what the target did for each executed case
    all_results,   \* SeleniumRegistrationTests.run_all_tests: local all_results
    driver,        \* self.driver: "none", "open", "quit"
    faults,        \* number of cases on this instance whose target departed from
                   \* its usual answer
    report,        \* the report built at the end of the run, NoReport before
    call,          \* a caller-supplied case for run_test_case
    epoch,         \* int(time.time()) of the run
    exc,           \* the exception travelling up, or that left the run; "none"
    run,           \* number of the invocation of the run method on this instance
    status,        \* exit status of the process of main: "running", "0", "1"
    quits,         \* number of calls of self.driver.quit()
    artifact,      \* the JSON file of the run: "none", "saved", "failed"
    server,        \* the local test server of run_selenium_tests
    steps          \* the browser steps of the execute_test_case call last made

vars ==
    << runner, pc, idx, cur, test_results, executed, env, all_results,
       driver, faults, report, call, epoch, exc, run, status, quits, artifact,
       server, steps >>

----------------------------------------------------------------------------
(* Bounds of the model *)

\* number of direct calls of one method explored on one instance
MaxCalls == 2

\* length of the result logs handed to the report generators
MaxLog == 3

\* number of invocations of the run method on one instance
MaxRuns == 2

\* number of cases on one instance in which the target departs from its usual
\* answer (the page misbehaves, the simulated endpoint is slow)
MaxFaults == 1

----------------------------------------------------------------------------
(* String constants of the code, as character sequences *)

SUCCESS ==
    << "s", "u", "c", "c", "e", "s", "s" >>
SQL_PATTERN ==
    << "D", "R", "O", "P", " ", "T", "A", "B", "L", "E" >>
XSS_PATTERN ==
    << "<", "s", "c", "r", "i", "p", "t", ">" >>
AT_SIGN ==
    << "@" >>
MSG_USERNAME_REQUIRED ==
    << "U", "s", "e", "r", "n", "a", "m", "e", " ", "i", "s", " ", "r", "e",
       "q", "u", "i", "r", "e", "d" >>
MSG_USERNAME_LENGTH ==
    << "U", "s", "e", "r", "n", "a", "m", "e", " ", "m", "u", "s", "t", " ",
       "b", "e", " ", "a", "t", " ", "l", "e", "a", "s", "t", " ", "3", " ",
       "c", "h", "a", "r", "a", "c", "t", "e", "r", "s" >>
MSG_EMAIL_REQUIRED ==
    << "E", "m", "a", "i", "l", " ", "i", "s", " ", "r", "e", "q", "u", "i",
       "r", "e", "d" >>
MSG_EMAIL_FORMAT ==
    << "P", "l", "e", "a", "s", "e", " ", "e", "n", "t", "e", "r", " ", "a",
       " ", "v", "a", "l", "i", "d", " ", "e", "m", "a", "i", "l", " ", "a",
       "d", "d", "r", "e", "s", "s" >>
MSG_PASSWORD_REQUIRED ==
    << "P", "a", "s", "s", "w", "o", "r", "d", " ", "i", "s", " ", "r", "e",
       "q", "u", "i", "r", "e", "d" >>
MSG_PASSWORD_LENGTH ==
    << "P", "a", "s", "s", "w", "o", "r", "d", " ", "m", "u", "s", "t", " ",
       "b", "e", " ", "a", "t", " ", "l", "e", "a", "s", "t", " ", "8", " ",
       "c", "h", "a", "r", "a", "c", "t", "e", "r", "s" >>
MSG_INVALID_CHARACTERS ==
    << "I", "n", "v", "a", "l", "i", "d", " ", "c", "h", "a", "r", "a", "c",
       "t", "e", "r", "s", " ", "i", "n", " ", "u", "s", "e", "r", "n", "a",
       "m", "e" >>
MSG_REGISTRATION_FAILED ==
    << "R", "e", "g", "i", "s", "t", "r", "a", "t", "i", "o", "n", " ", "f",
       "a", "i", "l", "e", "d" >>
U_AB ==
    << "a", "b" >>
U_ABC ==
    << "a", "b", "c" >>
U_TESTUSER ==
    << "t", "e", "s", "t", "u", "s", "e", "r" >>
U_SQL ==
    << "a", "d", "m", "i", "n", "'", ";", " ", "D", "R", "O", "P", " ", "T",
       "A", "B", "L", "E", " ", "u", "s", "e", "r", "s", ";", " ", "-", "-" >>
U_XSS ==
    << "<", "s", "c", "r", "i", "p", "t", ">", "a", "l", "e", "r", "t", "(",
       "'", "X", "S", "S", "'", ")", "<", "/", "s", "c", "r", "i", "p", "t",
       ">" >>
U_LOWER_SQL ==
    << "d", "r", "o", "p", " ", "t", "a", "b", "l", "e" >>
E_TEST ==
    << "t", "e", "s", "t", "@", "e", "x", "a", "m", "p", "l", "e", ".", "c",
       "o", "m" >>
E_INVALID ==
    << "i", "n", "v", "a", "l", "i", "d", "-", "e", "m", "a", "i", "l" >>
P_VALID ==
    << "V", "a", "l", "i", "d", "P", "a", "s", "s", "1", "2", "3", "!" >>
P_SHORT6 ==
    << "P", "a", "s", "s", "1", "!" >>
P_SEVEN ==
    << "P", "a", "s", "s", "1", "2", "!" >>
P_EIGHT ==
    << "P", "a", "s", "s", "1", "2", "3", "!" >>
P_SECURE ==
    << "S", "e", "c", "u", "r", "e", "P", "a", "s", "s", "1", "2", "3", "!" >>
P_MIN ==
    << "M", "i", "n", "P", "a", "s", "s", "1", "2", "3", "!" >>
P_COMPLETE ==
    << "C", "o", "m", "p", "l", "e", "t", "e", "P", "a", "s", "s", "1", "2",
       "3", "!" >>
P_PERF ==
    << "P", "e", "r", "f", "P", "a", "s", "s", "1", "2", "3", "!" >>
X_INVALID_CHARACTERS ==
    << "I", "n", "v", "a", "l", "i", "d", " ", "c", "h", "a", "r", "a", "c",
       "t", "e", "r", "s" >>
X_LOWER_INVALID ==
    << "i", "n", "v", "a", "l", "i", "d", " ", "c", "h", "a", "r", "a", "c",
       "t", "e", "r", "s" >>
X_IS_REQUIRED ==
    << "i", "s", " ", "r", "e", "q", "u", "i", "r", "e", "d" >>
PFX_TESTUSER ==
    << "t", "e", "s", "t", "u", "s", "e", "r", "_" >>
PFX_TEST ==
    << "t", "e", "s", "t", "_" >>
PFX_MINUSER ==
    << "m", "i", "n", "u", "s", "e", "r", "_" >>
PFX_MIN ==
    << "m", "i", "n", "_" >>
PFX_COMPLETE ==
    << "c", "o", "m", "p", "l", "e", "t", "e", "_" >>
PFX_PERFUSER ==
    << "p", "e", "r", "f", "u", "s", "e", "r", "_" >>
PFX_PERF ==
    << "p", "e", "r", "f", "_" >>
SFX_EXAMPLE ==
    << "@", "e", "x", "a", "m", "p", "l", "e", ".", "c", "o", "m" >>
F_JOHN ==
    << "J", "o", "h", "n" >>
F_DOE ==
    << "D", "o", "e" >>
F_JANE ==
    << "J", "a", "n", "e" >>
F_SMITH ==
    << "S", "m", "i", "t", "h" >>
F_PHONE ==
    << "+", "1", "2", "3", "4", "5", "6", "7", "8", "9", "0" >>
F_ADDRESS ==
    << "1", "2", "3", " ", "T", "e", "s", "t", " ", "S", "t", "r", "e", "e",
       "t" >>
UPPER ==
    << "A", "B", "C", "D", "E", "F", "G", "H", "I", "J", "K", "L", "M", "N",
       "O", "P", "Q", "R", "S", "T", "U", "V", "W", "X", "Y", "Z" >>
LOWER ==
    << "a", "b", "c", "d", "e", "f", "g", "h", "i", "j", "k", "l", "m", "n",
       "o", "p", "q", "r", "s", "t", "u", "v", "w", "x", "y", "z" >>

\* Python None, and a key that a payload dict does not hold: one-element
\* sequences that no character sequence equals
NONE == << "None" >>

ABSENT == << "absent" >>

DIGITS ==
    << "0", "1", "2", "3", "4", "5", "6", "7", "8", "9" >>

----------------------------------------------------------------------------
(* Python string operations *)

\* sub in s
Contains(sub, s) ==
    \E i \in 0..(Len(s) - Len(sub)) : SubSeq(s, i + 1, i + Len(sub)) = sub

LowerChar(c) ==
    IF \E i \in 1..Len(UPPER) : UPPER[i] = c
    THEN LOWER[CHOOSE i \in 1..Len(UPPER) : UPPER[i] = c]
    ELSE c

\* s.lower()
Lower(s) == [i \in 1..Len(s) |-> LowerChar(s[i])]

RECURSIVE Str(_)
\* str(n) for n >= 0
Str(n) ==
    IF n < 10 THEN << DIGITS[n + 1] >>
    ELSE Str(n \div 10) \o << DIGITS[(n % 10) + 1] >>

\* a dict literal: the keys whose value is given
Dict(all) ==
    [k \in {f \in DOMAIN all : all[f] # ABSENT} |-> all[k]]

\* data.get(key, "")
Get(data, key) == IF key \in DOMAIN data THEN data[key] ELSE << >>

\* not data.get(key): the key is missing or its value is the empty string
Falsy(data, key) == key \notin DOMAIN data \/ data[key] = << >>

----------------------------------------------------------------------------
(* SimulatedRegistrationTester: the simulated executor *)

\* _is_valid_data with the password bound off by one (len < 7)
_is_valid_data_short_password(data) ==
    IF Falsy(data, "username") \/ Len(Get(data, "username")) < 3 THEN FALSE
    ELSE IF Falsy(data, "email") \/ ~Contains(AT_SIGN, Get(data, "email")) THEN FALSE
    ELSE IF Falsy(data, "password") \/ Len(Get(data, "password")) < 7 THEN FALSE
    ELSE IF Contains(SQL_PATTERN, Get(data, "username")) THEN FALSE
    ELSE IF Contains(XSS_PATTERN, Get(data, "username")) THEN FALSE
    ELSE TRUE

\* _is_valid_data without the "<script>" test
_is_valid_data_no_xss_test(data) ==
    IF Falsy(data, "username") \/ Len(Get(data, "username")) < 3 THEN FALSE
    ELSE IF Falsy(data, "email") \/ ~Contains(AT_SIGN, Get(data, "email")) THEN FALSE
    ELSE IF Falsy(data, "password") \/ Len(Get(data, "password")) < 8 THEN FALSE
    ELSE IF Contains(SQL_PATTERN, Get(data, "username")) THEN FALSE
    ELSE TRUE

\* _is_valid_data with an exclusive minimum for the username (len <= 3)
_is_valid_data_exclusive_username(data) ==
    IF Falsy(data, "username") \/ Len(Get(data, "username")) <= 3 THEN FALSE
    ELSE IF Falsy(data, "email") \/ ~Contains(AT_SIGN, Get(data, "email")) THEN FALSE
    ELSE IF Falsy(data, "password") \/ Len(Get(data, "password")) < 8 THEN FALSE
    ELSE IF Contains(SQL_PATTERN, Get(data, "username")) THEN FALSE
    ELSE IF Contains(XSS_PATTERN, Get(data, "username")) THEN FALSE
    ELSE TRUE

_is_valid_data(data) ==
    IF Falsy(data, "username") \/ Len(Get(data, "username")) < 3 THEN FALSE
    ELSE IF Falsy(data, "email") \/ ~Contains(AT_SIGN, Get(data, "email")) THEN FALSE
    ELSE IF Falsy(data, "password") \/ Len(Get(data, "password")) < 8 THEN FALSE
    ELSE IF Contains(SQL_PATTERN, Get(data, "username")) THEN FALSE
    ELSE IF Contains(XSS_PATTERN, Get(data, "username")) THEN FALSE
    ELSE TRUE

\* _get_error_message without the branch of the username length
_get_error_message_without_username_length(data) ==
    IF Falsy(data, "username") THEN MSG_USERNAME_REQUIRED
    ELSE IF Falsy(data, "email") THEN MSG_EMAIL_REQUIRED
    ELSE IF ~Contains(AT_SIGN, Get(data, "email")) THEN MSG_EMAIL_FORMAT
    ELSE IF Falsy(data, "password") THEN MSG_PASSWORD_REQUIRED
    ELSE IF Len(Get(data, "password")) < 8 THEN MSG_PASSWORD_LENGTH
    ELSE IF Contains(SQL_PATTERN, Get(data, "username")) THEN MSG_INVALID_CHARACTERS
    ELSE IF Contains(XSS_PATTERN, Get(data, "username")) THEN MSG_INVALID_CHARACTERS
    ELSE MSG_REGISTRATION_FAILED

\* _get_error_message with the password-empty branch ahead of the
\* email-format branch
_get_error_message_password_before_format(data) ==
    IF Falsy(data, "username") THEN MSG_USERNAME_REQUIRED
    ELSE IF Len(Get(data, "username")) < 3 THEN MSG_USERNAME_LENGTH
    ELSE IF Falsy(data, "email") THEN MSG_EMAIL_REQUIRED
    ELSE IF Falsy(data, "password") THEN MSG_PASSWORD_REQUIRED
    ELSE IF ~Contains(AT_SIGN, Get(data, "email")) THEN MSG_EMAIL_FORMAT
    ELSE IF Len(Get(data, "password")) < 8 THEN MSG_PASSWORD_LENGTH
    ELSE IF Contains(SQL_PATTERN, Get(data, "username")) THEN MSG_INVALID_CHARACTERS
    ELSE IF Contains(XSS_PATTERN, Get(data, "username")) THEN MSG_INVALID_CHARACTERS
    ELSE MSG_REGISTRATION_FAILED

\* _get_error_message with the two injection branches ahead of the email and
\* password branches
_get_error_message_injection_first(data) ==
    IF Falsy(data, "username") THEN MSG_USERNAME_REQUIRED
    ELSE IF Len(Get(data, "username")) < 3 THEN MSG_USERNAME_LENGTH
    ELSE IF Contains(SQL_PATTERN, Get(data, "username")) THEN MSG_INVALID_CHARACTERS
    ELSE IF Contains(XSS_PATTERN, Get(data, "username")) THEN MSG_INVALID_CHARACTERS
    ELSE IF Falsy(data, "email") THEN MSG_EMAIL_REQUIRED
    ELSE IF ~Contains(AT_SIGN, Get(data, "email")) THEN MSG_EMAIL_FORMAT
    ELSE IF Falsy(data, "password") THEN MSG_PASSWORD_REQUIRED
    ELSE IF Len(Get(data, "password")) < 8 THEN MSG_PASSWORD_LENGTH
    ELSE MSG_REGISTRATION_FAILED

_get_error_message(data) ==
    IF Falsy(data, "username") THEN MSG_USERNAME_REQUIRED
    ELSE IF Len(Get(data, "username")) < 3 THEN MSG_USERNAME_LENGTH
    ELSE IF Falsy(data, "email") THEN MSG_EMAIL_REQUIRED
    ELSE IF ~Contains(AT_SIGN, Get(data, "email")) THEN MSG_EMAIL_FORMAT
    ELSE IF Falsy(data, "password") THEN MSG_PASSWORD_REQUIRED
    ELSE IF Len(Get(data, "password")) < 8 THEN MSG_PASSWORD_LENGTH
    ELSE IF Contains(SQL_PATTERN, Get(data, "username")) THEN MSG_INVALID_CHARACTERS
    ELSE IF Contains(XSS_PATTERN, Get(data, "username")) THEN MSG_INVALID_CHARACTERS
    ELSE MSG_REGISTRATION_FAILED

\* response_time and user_id are the values drawn by random.uniform and
\* random.randint
simulate_http_request(data, response_time, user_id) ==
    IF _is_valid_data(data)
    THEN [status_code |-> 201,
          response_time |-> response_time,
          body |-> [message |-> "Registration successful", user_id |-> user_id],
          success |-> TRUE]
    ELSE [status_code |-> 400,
          response_time |-> response_time,
          body |-> [error |-> _get_error_message(data)],
          success |-> FALSE]

\* response["body"].get("error", "")
BodyError(body) == IF "error" \in DOMAIN body THEN body.error ELSE << >>

\* "expected_result in error" raises TypeError when expected_result is None;
\* the operand is only evaluated when the response is not a success
ClassificationRaises(expected_result, response) ==
    /\ expected_result # SUCCESS
    /\ ~response.success
    /\ expected_result = NONE

\* passed made to depend on the latency drawn (a slow answer fails the case)
Classify_with_latency(expected_result, response) ==
    /\ response.response_time < 10
    /\ IF expected_result = SUCCESS
       THEN response.success
       ELSE /\ ~response.success
            /\ Contains(expected_result, BodyError(response.body))

\* passed made to require the status 200 of expected_status for a success
Classify_expecting_status_200(expected_result, response) ==
    IF expected_result = SUCCESS
    THEN response.success /\ response.status_code = 200
    ELSE /\ ~response.success
         /\ Contains(expected_result, BodyError(response.body))

\* passed, as lines 93-96 compute it
Classify(expected_result, response) ==
    IF expected_result = SUCCESS
    THEN response.success
    ELSE /\ ~response.success
         /\ Contains(expected_result, BodyError(response.body))

\* run_test_case on the log `log`: the log it leaves and whether an exception
\* left the method (there is no try/except in it: nothing is appended then)
run_test_case(log, test_id, description, test_data, expected_result, response_time, user_id) ==
    LET response == simulate_http_request(test_data, response_time, user_id)
        result == [test_id |-> test_id,
                   description |-> description,
                   test_data |-> test_data,
                   expected_result |-> expected_result,
                   actual_response |-> response,
                   passed |-> Classify(expected_result, response)]
    IN  IF ClassificationRaises(expected_result, response)
        THEN [raised |-> TRUE, test_results |-> log]
        ELSE [raised |-> FALSE, test_results |-> Append(log, result)]

----------------------------------------------------------------------------
(* Direct use of run_test_case: a caller hands one case of its own to a     *)
(* tester instance, possibly several times and mixed with a catalog case.  *)

\* random.uniform(0.1, 2.0), in tenths of a second: the two ends of the range
Latencies == {1, 20}

\* random.randint(1000, 9999): the two ends of the range
UserIds == {1000, 9999}

CaseUsernames ==
    {ABSENT, << >>, U_AB, U_ABC, U_TESTUSER, U_SQL, U_XSS, U_LOWER_SQL}

CaseEmails == {ABSENT, << >>, E_INVALID, E_TEST}

CasePasswords == {ABSENT, << >>, P_SEVEN, P_EIGHT}

CaseConfirms == {ABSENT, P_EIGHT}

CasePayloads ==
    {Dict([username |-> u, email |-> e, password |-> p, confirm_password |-> c]) :
        u \in CaseUsernames, e \in CaseEmails, p \in CasePasswords, c \in CaseConfirms}

CaseExpected ==
    {SUCCESS, << >>, NONE, X_INVALID_CHARACTERS, X_LOWER_INVALID, X_IS_REQUIRED}

NoReport == [built |-> FALSE]

\* no server was started
NoServer == [socket |-> "none", thread |-> "none"]

InitCase ==
    /\ runner = "simulated"
    /\ pc = "idle"
    /\ idx = 0
    /\ cur = 0
    /\ test_results = << >>
    /\ executed = << >>
    /\ env = << >>
    /\ all_results = << >>
    /\ driver = "none"
    /\ faults = 0
    /\ report = NoReport
    /\ call \in [test_data : CasePayloads, expected_result : CaseExpected]
    /\ epoch = 0
    /\ exc = "none"
    /\ run = 1
    /\ status = "running"
    /\ quits = 0
    /\ artifact = "none"
    /\ server = NoServer
    /\ steps = << >>

\* One run_test_case call; an exception leaves the method and reaches the caller
CallRunTestCase(test_id, description, test_data, expected_result) ==
    /\ pc = "idle"
    /\ Len(executed) < MaxCalls
    /\ \E response_time \in Latencies, user_id \in UserIds :
          LET r == run_test_case(test_results, test_id, description, test_data, expected_result, response_time, user_id)
          IN  /\ test_results' = r.test_results
              /\ pc' = IF r.raised THEN "raised" ELSE "idle"
              /\ exc' = IF r.raised THEN "TypeError" ELSE "none"
    /\ executed' = Append(executed, test_id)
    /\ UNCHANGED << steps, status, quits, artifact, server, run, runner, idx, cur, env, all_results, driver, faults, report, call, epoch >>

RunCallerCase ==
    CallRunTestCase("CASE", "caller-supplied case", call.test_data, call.expected_result)

\* REG_004 of run_negative_tests, called on its own
RunCatalogCase ==
    CallRunTestCase("REG_004", "Registration with empty username",
                    Dict([username |-> << >>, email |-> E_TEST, password |-> P_VALID]),
                    MSG_USERNAME_REQUIRED)

NextCase == RunCallerCase \/ RunCatalogCase

SpecCase == InitCase /\ [][NextCase]_vars

----------------------------------------------------------------------------
(* The catalogs: the cases each runner executes, in the order its run      *)
(* method calls them.                                                      *)

\* SimulatedRegistrationTester.run_full_test_suite: run_positive_tests,
\* run_negative_tests, run_security_tests, run_boundary_tests,
\* run_performance_test; t is str(int(time.time()))
SimCatalog(t) ==
    << [test_id |-> "REG_001", description |-> "Successful registration with valid data",
        test_data |-> [username |-> PFX_TESTUSER \o t, email |-> PFX_TEST \o t \o SFX_EXAMPLE,
                       password |-> P_SECURE, confirm_password |-> P_SECURE,
                       first_name |-> F_JOHN, last_name |-> F_DOE],
        expected_result |-> SUCCESS],
       [test_id |-> "REG_002", description |-> "Registration with minimum required fields",
        test_data |-> [username |-> PFX_MINUSER \o t, email |-> PFX_MIN \o t \o SFX_EXAMPLE,
                       password |-> P_MIN],
        expected_result |-> SUCCESS],
       [test_id |-> "REG_003", description |-> "Registration with all optional fields",
        test_data |-> [username |-> PFX_COMPLETE \o t, email |-> PFX_COMPLETE \o t \o SFX_EXAMPLE,
                       password |-> P_COMPLETE, first_name |-> F_JANE, last_name |-> F_SMITH,
                       phone |-> F_PHONE, address |-> F_ADDRESS],
        expected_result |-> SUCCESS],
       [test_id |-> "REG_004", description |-> "Registration with empty username",
        test_data |-> [username |-> << >>, email |-> E_TEST, password |-> P_VALID],
        expected_result |-> MSG_USERNAME_REQUIRED],
       [test_id |-> "REG_005", description |-> "Registration with empty email",
        test_data |-> [username |-> U_TESTUSER, email |-> << >>, password |-> P_VALID],
        expected_result |-> MSG_EMAIL_REQUIRED],
       [test_id |-> "REG_006", description |-> "Registration with empty password",
        test_data |-> [username |-> U_TESTUSER, email |-> E_TEST, password |-> << >>],
        expected_result |-> MSG_PASSWORD_REQUIRED],
       [test_id |-> "REG_007", description |-> "Registration with invalid email format",
        test_data |-> [username |-> U_TESTUSER, email |-> E_INVALID, password |-> P_VALID],
        expected_result |-> MSG_EMAIL_FORMAT],
       [test_id |-> "REG_015", description |-> "SQL injection protection",
        test_data |-> [username |-> U_SQL, email |-> E_TEST, password |-> P_VALID],
        expected_result |-> X_INVALID_CHARACTERS],
       [test_id |-> "REG_016", description |-> "XSS attack protection",
        test_data |-> [username |-> U_XSS, email |-> E_TEST, password |-> P_VALID],
        expected_result |-> X_INVALID_CHARACTERS],
       [test_id |-> "REG_012a", description |-> "Username below minimum length",
        test_data |-> [username |-> U_AB, email |-> E_TEST, password |-> P_VALID],
        expected_result |-> MSG_USERNAME_LENGTH],
       [test_id |-> "REG_013a", description |-> "Password below minimum length",
        test_data |-> [username |-> U_TESTUSER, email |-> E_TEST, password |-> P_SHORT6],
        expected_result |-> MSG_PASSWORD_LENGTH],
       [test_id |-> "REG_023", description |-> "Registration response time",
        test_data |-> [username |-> PFX_PERFUSER \o t, email |-> PFX_PERF \o t \o SFX_EXAMPLE,
                       password |-> P_PERF],
        expected_result |-> SUCCESS] >>

StandaloneCase(test_id, description, category, priority) ==
    [test_id |-> test_id, description |-> description, category |-> category, priority |-> priority]

\* StandaloneTestRunner.run_all_tests: the eight run_*_tests in call order
StandaloneCatalog ==
    << StandaloneCase("REG_001", "Successful registration with valid data", "Positive", "High"),
       StandaloneCase("REG_002", "Registration with minimum required fields", "Positive", "High"),
       StandaloneCase("REG_003", "Registration with all optional fields", "Positive", "Medium"),
       StandaloneCase("REG_004", "Registration with empty username", "Negative", "High"),
       StandaloneCase("REG_005", "Registration with empty email", "Negative", "High"),
       StandaloneCase("REG_006", "Registration with empty password", "Negative", "High"),
       StandaloneCase("REG_007", "Registration with invalid email format", "Negative", "High"),
       StandaloneCase("REG_008", "Registration with duplicate username", "Negative", "High"),
       StandaloneCase("REG_009", "Registration with duplicate email", "Negative", "High"),
       StandaloneCase("REG_010", "Registration with weak password", "Negative", "High"),
       StandaloneCase("REG_011", "Registration with mismatched passwords", "Negative", "High"),
       StandaloneCase("REG_015", "SQL injection protection", "Security", "High"),
       StandaloneCase("REG_016", "XSS attack protection", "Security", "High"),
       StandaloneCase("REG_017", "Password encryption verification", "Security", "High"),
       StandaloneCase("REG_018", "CSRF protection", "Security", "Medium"),
       StandaloneCase("REG_012", "Username length boundaries", "Boundary", "Medium"),
       StandaloneCase("REG_013", "Password length boundaries", "Boundary", "Medium"),
       StandaloneCase("REG_014", "Email length boundaries", "Boundary", "Low"),
       StandaloneCase("REG_019", "Form field validation messages", "UI_UX", "Medium"),
       StandaloneCase("REG_020", "Password visibility toggle", "UI_UX", "Low"),
       StandaloneCase("REG_021", "Form field tab order", "UI_UX", "Low"),
       StandaloneCase("REG_022", "Responsive design", "UI_UX", "Medium"),
       StandaloneCase("REG_023", "Registration response time", "Performance", "Medium"),
       StandaloneCase("REG_024", "Concurrent registrations", "Performance", "Medium"),
       StandaloneCase("REG_025", "Keyboard navigation", "Accessibility", "Medium"),
       StandaloneCase("REG_026", "Screen reader compatibility", "Accessibility", "Medium"),
       StandaloneCase("REG_027", "Color contrast compliance", "Accessibility", "Low"),
       StandaloneCase("REG_028", "Email verification flow", "Integration", "High"),
       StandaloneCase("REG_029", "Welcome email sending", "Integration", "Medium"),
       StandaloneCase("REG_030", "User profile creation", "Integration", "High") >>

\* the keys of valid_test_data, all of them keys of self.selectors
ValidFields ==
    << "username", "email", "password", "confirm_password", "first_name", "last_name", "phone" >>

\* the keys of minimal_data
MinimalFields == << "username", "email", "password" >>

\* a case run through execute_test_case
FormCase(test_id, description, fields, expected_result_type) ==
    [test_id |-> test_id, description |-> description, kind |-> "form",
     fields |-> fields, expected_result_type |-> expected_result_type]

\* a case with a procedure of its own (REG_020, REG_021)
OwnCase(test_id, description, kind) ==
    [test_id |-> test_id, description |-> description, kind |-> kind,
     fields |-> << >>, expected_result_type |-> "success"]

\* The f-strings that derive the identifier of one variant of a multi-variant
\* case: f"REG_007_{i+1}" over enumerate(...), f"REG_019_{field}" over the
\* required fields.
VariantId_without_suffix(base, suffix) == base

VariantId(base, suffix) == base \o "_" \o suffix

\* SeleniumRegistrationTests.run_all_tests: run_positive_tests,
\* run_negative_tests, run_security_tests, run_ui_ux_tests, each multi-variant
\* test expanded into its variants
SeleniumCatalog ==
    << FormCase("REG_001", "Successful registration with valid data", ValidFields, "success"),
       FormCase("REG_002", "Registration with minimum required fields", MinimalFields, "success"),
       FormCase("REG_003", "Registration with all optional fields", ValidFields, "success"),
       FormCase("REG_004", "Registration with empty username", ValidFields, "error"),
       FormCase("REG_005", "Registration with empty email", ValidFields, "error"),
       FormCase("REG_006", "Registration with empty password", ValidFields, "error"),
       FormCase(VariantId("REG_007", ToString(1)), "Registration with invalid email: invalid-email", ValidFields, "error"),
       FormCase(VariantId("REG_007", ToString(2)), "Registration with invalid email: @example.com", ValidFields, "error"),
       FormCase(VariantId("REG_007", ToString(3)), "Registration with invalid email: test@", ValidFields, "error"),
       FormCase(VariantId("REG_007", ToString(4)), "Registration with invalid email: test..test@example.com", ValidFields, "error"),
       FormCase(VariantId("REG_010", ToString(1)), "Registration with weak password: 123", ValidFields, "error"),
       FormCase(VariantId("REG_010", ToString(2)), "Registration with weak password: password", ValidFields, "error"),
       FormCase(VariantId("REG_010", ToString(3)), "Registration with weak password: abc", ValidFields, "error"),
       FormCase(VariantId("REG_010", ToString(4)), "Registration with weak password: 12345678", ValidFields, "error"),
       FormCase("REG_011", "Registration with mismatched passwords", ValidFields, "error"),
       FormCase(VariantId("REG_015", ToString(1)), "SQL injection test: admin'; DROP TABLE u...", ValidFields, "error"),
       FormCase(VariantId("REG_015", ToString(2)), "SQL injection test: ' OR '1'='1...", ValidFields, "error"),
       FormCase(VariantId("REG_015", ToString(3)), "SQL injection test: admin'/*...", ValidFields, "error"),
       FormCase(VariantId("REG_016", ToString(1)), "XSS test: <script>alert('XSS')...", ValidFields, "error"),
       FormCase(VariantId("REG_016", ToString(2)), "XSS test: javascript:alert('XS...", ValidFields, "error"),
       FormCase(VariantId("REG_016", ToString(3)), "XSS test: <img src=x onerror=a...", ValidFields, "error"),
       FormCase(VariantId("REG_019", "username"), "Validation message for empty username", ValidFields, "error"),
       FormCase(VariantId("REG_019", "email"), "Validation message for empty email", ValidFields, "error"),
       FormCase(VariantId("REG_019", "password"), "Validation message for empty password", ValidFields, "error"),
       OwnCase("REG_020", "Password visibility toggle", "toggle"),
       OwnCase("REG_021", "Form field tab order", "tab") >>

BrowserCase(test_id, description, message, failure_prefix) ==
    [test_id |-> test_id, description |-> description, message |-> message,
     failure_prefix |-> failure_prefix]

\* SeleniumTestRunner.run_all_tests: test_cases; message is an instance of the
\* message the test function returns, failure_prefix the start of the message
\* its own except clause returns
BrowserCatalog ==
    << BrowserCase("SEL_001", "Browser Navigation Test",
                   "Successfully navigated to httpbin, title: httpbin.org", "Navigation failed: "),
       BrowserCase("SEL_002", "Form Elements Detection",
                   "Found 5 form elements (4 inputs, 1 textareas)", "Form detection failed: "),
       BrowserCase("SEL_003", "Form Interaction Test",
                   "Successfully interacted with 4 form elements", "Form interaction failed: "),
       BrowserCase("SEL_004", "Page Responsiveness Test",
                   "Page loaded in 1.20s, content length: 300 chars", "Responsiveness test failed: "),
       BrowserCase("SEL_005", "JavaScript Execution Test",
                   "JavaScript execution successful: 2+2=4, title='httpbin.org'", "JavaScript execution failed: "),
       BrowserCase("SEL_006", "Element Waiting Test",
                   "Successfully waited for and found body element", "Element waiting failed: "),
       BrowserCase("SEL_007", "Multiple Window Sizes Test",
                   "Successfully tested 3/3 window sizes", "Window size testing failed: "),
       BrowserCase("SEL_008", "Cookie Handling Test",
                   "Cookie handling test completed - cookies detected in response", "Cookie handling failed: ") >>

\* a test of UserRegistrationTestDemo: the string names it
DemoCase(category, test) == [test_id |-> test, category |-> category]

\* UserRegistrationTestDemo.run_all_tests: positive, negative, boundary,
\* security, ui_ux, performance, accessibility, integration
DemoCatalog ==
    << DemoCase("POSITIVE", "REG_001: Successful registration with valid data"),
       DemoCase("POSITIVE", "REG_002: Registration with minimum required fields"),
       DemoCase("POSITIVE", "REG_003: Registration with all optional fields"),
       DemoCase("NEGATIVE", "REG_004: Registration with empty username"),
       DemoCase("NEGATIVE", "REG_005: Registration with empty email"),
       DemoCase("NEGATIVE", "REG_006: Registration with empty password"),
       DemoCase("NEGATIVE", "REG_007: Registration with invalid email format"),
       DemoCase("NEGATIVE", "REG_008: Registration with duplicate username"),
       DemoCase("NEGATIVE", "REG_009: Registration with duplicate email"),
       DemoCase("NEGATIVE", "REG_010: Registration with weak password"),
       DemoCase("NEGATIVE", "REG_011: Registration with mismatched passwords"),
       DemoCase("BOUNDARY", "REG_012: Username length boundaries"),
       DemoCase("BOUNDARY", "REG_013: Password length boundaries"),
       DemoCase("BOUNDARY", "REG_014: Email length boundaries"),
       DemoCase("SECURITY", "REG_015: SQL injection protection"),
       DemoCase("SECURITY", "REG_016: XSS attack protection"),
       DemoCase("SECURITY", "REG_017: Password encryption verification"),
       DemoCase("SECURITY", "REG_018: CSRF protection"),
       DemoCase("UI_UX", "REG_019: Form field validation messages"),
       DemoCase("UI_UX", "REG_020: Password visibility toggle"),
       DemoCase("UI_UX", "REG_021: Form field tab order"),
       DemoCase("UI_UX", "REG_022: Responsive design"),
       DemoCase("PERFORMANCE", "REG_023: Registration response time"),
       DemoCase("PERFORMANCE", "REG_024: Concurrent registrations"),
       DemoCase("ACCESSIBILITY", "REG_025: Keyboard navigation"),
       DemoCase("ACCESSIBILITY", "REG_026: Screen reader compatibility"),
       DemoCase("ACCESSIBILITY", "REG_027: Color contrast compliance"),
       DemoCase("INTEGRATION", "REG_028: Email verification flow"),
       DemoCase("INTEGRATION", "REG_029: Welcome email sending"),
       DemoCase("INTEGRATION", "REG_030: User profile creation") >>

\* the run_* method of SimulatedRegistrationTester that holds each case of
\* SimCatalog, by the category it prints
SimCategories ==
    << "Positive", "Positive", "Positive", "Negative", "Negative", "Negative", "Negative",
       "Security", "Security", "Boundary", "Boundary", "Performance" >>

Catalog ==
    CASE runner = "simulated" -> SimCatalog(Str(epoch))
      [] runner = "demo" -> DemoCatalog
      [] runner = "standalone" -> StandaloneCatalog
      [] runner = "selenium" -> SeleniumCatalog
      [] runner = "selenium_standalone" -> BrowserCatalog

----------------------------------------------------------------------------
(* What the target does for one case: the browser, the page under test.    *)

Outcome(kind, detail) == [kind |-> kind, detail |-> detail]

\* the text of the page's .success-message and .error-message elements
PageSuccessText == "Registration successful"

PageErrorText == "Invalid input"

\* keys of the payload whose fill_form_field is explored failing: the first
\* and the last one filled
FillFaultFields(c) == {c.fields[1], c.fields[Len(c.fields)]}

FormOutcomes(c) ==
    {Outcome("nav_timeout", ""), Outcome("submit_failed", ""), Outcome("no_response", ""),
     Outcome("exception", "WebDriverException"), Outcome("interrupt", ""),
     Outcome("success_only", ""), Outcome("error_only", ""), Outcome("both", "")}
    \cup {Outcome("fill_failed", f) : f \in FillFaultFields(c)}

\* detail: str(is_masked)
ToggleOutcomes ==
    {Outcome("nav_timeout", ""), Outcome("toggle_not_found", ""),
     Outcome("exception", "WebDriverException"), Outcome("interrupt", "")}
    \cup {Outcome(k, m) : k \in {"toggle_worked", "toggle_unchanged"}, m \in {"True", "False"}}

\* detail: str(len(form_inputs))
TabOutcomes ==
    {Outcome("nav_timeout", ""), Outcome("not_enough_fields", ""),
     Outcome("exception", "WebDriverException"), Outcome("interrupt", ""),
     Outcome("tabbed", "7")}

SeleniumOutcomes(c) ==
    CASE c.kind = "form" -> FormOutcomes(c)
      [] c.kind = "toggle" -> ToggleOutcomes
      [] c.kind = "tab" -> TabOutcomes

\* the page answers with the kind of message the case expects
NominalOutcome(c) ==
    CASE c.kind = "form" ->
           IF c.expected_result_type = "success" THEN Outcome("success_only", "")
           ELSE Outcome("error_only", "")
      [] c.kind = "toggle" -> Outcome("toggle_worked", "True")
      [] c.kind = "tab" -> Outcome("tabbed", "7")

\* what a test function of SeleniumTestRunner meets
BrowserOutcomes ==
    {Outcome("check_passed", ""), Outcome("check_failed", ""),
     Outcome("browser_error", "WebDriverException"), Outcome("interrupt", "")}

----------------------------------------------------------------------------
(* SeleniumRegistrationTests: one case *)

\* get_success_message(): << >> is None, << text >> the element's text
get_success_message(outcome) ==
    IF outcome.kind \in {"success_only", "both"} THEN << PageSuccessText >> ELSE << >>

get_error_message(outcome) ==
    IF outcome.kind \in {"error_only", "both"} THEN << PageErrorText >> ELSE << >>

\* msg or default
OrElse(msg, default) == IF msg # << >> /\ msg[1] # "" THEN msg[1] ELSE default

\* record_test_result storing the result over the last one instead of
\* appending it
record_test_result_over_last(log, test_id, description, passed, result_message) ==
    LET result == [test_id |-> test_id, description |-> description,
                   passed |-> passed, result_message |-> result_message]
    IN  IF log = << >> THEN << result >> ELSE [log EXCEPT ![Len(log)] = result]

record_test_result(log, test_id, description, passed, result_message) ==
    Append(log, [test_id |-> test_id, description |-> description,
                 passed |-> passed, result_message |-> result_message])

\* the keys of self.selectors that name a form field
SelectorFields ==
    {"username", "email", "password", "confirm_password", "first_name", "last_name", "phone"}

Step(op, field) == [op |-> op, field |-> field]

\* execute_test_case that goes on to submit_form after a fill_form_field
\* that failed
execute_test_case_steps_ignoring_fill(fields, outcome) ==
    LET k == outcome.kind
        known == SelectSeq(fields, LAMBDA f : f \in SelectorFields)
        filled == << Step("navigate", "") >> \o [i \in 1..Len(known) |-> Step("fill", known[i])]
    IN  CASE k \in {"nav_timeout", "exception", "interrupt"} -> << Step("navigate", "") >>
          [] k \in {"fill_failed", "submit_failed"} -> filled \o << Step("submit", "") >>
          [] k = "no_response" -> filled \o << Step("submit", ""), Step("wait", "") >>
          [] OTHER -> filled \o << Step("submit", ""), Step("wait", ""),
                                   Step("get_success_message", ""),
                                   Step("get_error_message", "") >>

\* the helpers execute_test_case calls, in the order it calls them:
\* navigate_to_registration, fill_form_field for each key of the payload
\* that self.selectors knows, submit_form, wait_for_response, then
\* get_success_message and get_error_message; a helper that returns False
\* is the last one called. An exception or an interrupt is explored in
\* driver.get.
execute_test_case_steps(fields, outcome) ==
    LET k == outcome.kind
        known == SelectSeq(fields, LAMBDA f : f \in SelectorFields)
        failing == CHOOSE i \in 1..Len(known) : known[i] = outcome.detail
        Fills(n) == [i \in 1..n |-> Step("fill", known[i])]
        filled == << Step("navigate", "") >> \o Fills(Len(known))
    IN  CASE k \in {"nav_timeout", "exception", "interrupt"} -> << Step("navigate", "") >>
          [] k = "fill_failed" -> << Step("navigate", "") >> \o Fills(failing)
          [] k = "submit_failed" -> filled \o << Step("submit", "") >>
          [] k = "no_response" -> filled \o << Step("submit", ""), Step("wait", "") >>
          [] OTHER -> filled \o << Step("submit", ""), Step("wait", ""),
                                   Step("get_success_message", ""),
                                   Step("get_error_message", "") >>

\* execute_test_case without its except clause: an exception raised while
\* the case runs leaves the method
execute_test_case_without_except(log, test_id, description, expected_result_type, outcome) ==
    LET k == outcome.kind
        success_msg == get_success_message(outcome)
        error_msg == get_error_message(outcome)
        Recorded(passed, result_message) ==
            [raised |-> "none",
             test_results |-> Append(log, [test_id |-> test_id, description |-> description,
                                           passed |-> passed, result_message |-> result_message])]
    IN  CASE k = "interrupt" -> [raised |-> "KeyboardInterrupt", test_results |-> log]
          [] k = "nav_timeout" -> Recorded(FALSE, "Failed to load page")
          [] k = "fill_failed" -> Recorded(FALSE, "Failed to fill " \o outcome.detail)
          [] k = "submit_failed" -> Recorded(FALSE, "Failed to submit form")
          [] k = "no_response" -> Recorded(FALSE, "No response received")
          [] k = "exception" -> [raised |-> outcome.detail, test_results |-> log]
          [] OTHER ->
               IF expected_result_type = "success"
               THEN Recorded(success_msg # << >>, OrElse(success_msg, "No success message"))
               ELSE Recorded(error_msg # << >>, OrElse(error_msg, "No error message"))

\* execute_test_case: the log it leaves and the exception that leaves it
execute_test_case(log, test_id, description, expected_result_type, outcome) ==
    LET k == outcome.kind
        success_msg == get_success_message(outcome)
        error_msg == get_error_message(outcome)
        Recorded(passed, result_message) ==
            [raised |-> "none",
             test_results |-> record_test_result(log, test_id, description, passed, result_message)]
    IN  CASE k = "interrupt" -> [raised |-> "KeyboardInterrupt", test_results |-> log]
          [] k = "nav_timeout" -> Recorded(FALSE, "Failed to load page")
          [] k = "fill_failed" -> Recorded(FALSE, "Failed to fill " \o outcome.detail)
          [] k = "submit_failed" -> Recorded(FALSE, "Failed to submit form")
          [] k = "no_response" -> Recorded(FALSE, "No response received")
          [] k = "exception" -> Recorded(FALSE, "Exception: " \o outcome.detail)
          [] OTHER ->
               IF expected_result_type = "success"
               THEN Recorded(success_msg # << >>, OrElse(success_msg, "No success message"))
               ELSE Recorded(error_msg # << >>, OrElse(error_msg, "No error message"))

test_password_visibility_toggle(log, outcome) ==
    LET k == outcome.kind
        Recorded(passed, result_message) ==
            [raised |-> "none",
             test_results |-> record_test_result(log, "REG_020", "Password visibility toggle",
                                                 passed, result_message)]
    IN  CASE k = "interrupt" -> [raised |-> "KeyboardInterrupt", test_results |-> log]
          [] k = "nav_timeout" -> Recorded(FALSE, "Failed to load page")
          [] k = "toggle_not_found" -> Recorded(FALSE, "Toggle button not found")
          [] k = "exception" -> Recorded(FALSE, "Exception: " \o outcome.detail)
          [] k = "toggle_worked" ->
               Recorded(TRUE, "Password initially masked: " \o outcome.detail \o ", Toggle worked: True")
          [] k = "toggle_unchanged" ->
               Recorded(FALSE, "Password initially masked: " \o outcome.detail \o ", Toggle worked: False")

test_form_field_tab_order(log, outcome) ==
    LET k == outcome.kind
        Recorded(passed, result_message) ==
            [raised |-> "none",
             test_results |-> record_test_result(log, "REG_021", "Form field tab order",
                                                 passed, result_message)]
    IN  CASE k = "interrupt" -> [raised |-> "KeyboardInterrupt", test_results |-> log]
          [] k = "nav_timeout" -> Recorded(FALSE, "Failed to load page")
          [] k = "not_enough_fields" -> Recorded(FALSE, "Not enough form fields")
          [] k = "exception" -> Recorded(FALSE, "Exception: " \o outcome.detail)
          [] k = "tabbed" ->
               Recorded(TRUE, "Tab navigation through " \o outcome.detail \o " fields")

\* the test method of case c
RunSeleniumTest(log, c, outcome) ==
    CASE c.kind = "form" ->
           execute_test_case(log, c.test_id, c.description, c.expected_result_type, outcome)
      [] c.kind = "toggle" -> test_password_visibility_toggle(log, outcome)
      [] c.kind = "tab" -> test_form_field_tab_order(log, outcome)

----------------------------------------------------------------------------
(* SeleniumTestRunner: one case *)

\* a test_* method: what test_function() returns, or the exception leaving it
\* (each method catches Exception itself and returns a failed dict)
TestFunction(c, outcome) ==
    CASE outcome.kind = "interrupt" -> [raised |-> "KeyboardInterrupt"]
      [] outcome.kind = "check_passed" ->
           [raised |-> "none", passed |-> TRUE, message |-> c.message]
      [] outcome.kind = "check_failed" ->
           [raised |-> "none", passed |-> FALSE, message |-> c.message]
      [] outcome.kind = "browser_error" ->
           [raised |-> "none", passed |-> FALSE, message |-> c.failure_prefix \o outcome.detail]

SeleniumTestRunner_execute_test(log, test_id, description, returned) ==
    LET Recorded(passed, message) ==
            [raised |-> "none",
             test_results |-> Append(log, [test_id |-> test_id, description |-> description,
                                           passed |-> passed, message |-> message])]
    IN  CASE returned.raised = "none" -> Recorded(returned.passed, returned.message)
          [] returned.raised = "KeyboardInterrupt" ->
               [raised |-> "KeyboardInterrupt", test_results |-> log]
          [] OTHER -> Recorded(FALSE, "Test failed with exception: " \o returned.raised)

----------------------------------------------------------------------------
(* StandaloneTestRunner: one case *)

\* execute_test keeping only the newest result (self.test_results = [result])
StandaloneTestRunner_execute_test_keeping_newest(log, test_id, description, category, priority) ==
    << [test_id |-> test_id, description |-> description, category |-> category,
        priority |-> priority, passed |-> TRUE] >>

\* passed = True: all tests pass in this runner
StandaloneTestRunner_execute_test(log, test_id, description, category, priority) ==
    Append(log, [test_id |-> test_id, description |-> description, category |-> category,
                 priority |-> priority, passed |-> TRUE])

----------------------------------------------------------------------------
(* Reports *)

\* sum(1 for result in self.test_results if result["passed"]) with every
\* result counted (the condition left out)
CountPassed_counting_all(log) == Len(log)

\* sum(1 for result in self.test_results if result["passed"])
CountPassed(log) == Cardinality({n \in 1..Len(log) : log[n].passed})

\* (passed / total) * 100 if total > 0 else 0, in hundredths of a percent,
\* rounded down
PassRate(passed, total) == IF total > 0 THEN (passed * 10000) \div total ELSE 0

\* the summary with its totals kept from one call to the next and added to
Summary_adding_to_last(log) ==
    LET before == IF report.built THEN report.total_tests ELSE 0
    IN  [built |-> TRUE,
         total_tests |-> before + Len(log),
         passed |-> CountPassed(log),
         failed |-> before + Len(log) - CountPassed(log),
         pass_rate |-> PassRate(CountPassed(log), before + Len(log))]

\* the "summary" object every report holds
Summary(log) ==
    [built |-> TRUE,
     total_tests |-> Len(log),
     passed |-> CountPassed(log),
     failed |-> Len(log) - CountPassed(log),
     pass_rate |-> PassRate(CountPassed(log), Len(log))]

\* a report generator left by the exception e: no report
Raised(e) == [built |-> FALSE, raised |-> e]

SimulatedRegistrationTester_generate_test_report(log) == Summary(log)

SeleniumRegistrationTests_generate_test_report(log) == Summary(log)

\* "if execution_times:" guards min() and max()
\* a report that is produced only when some case passed
SeleniumTestRunner_generate_summary_report_needing_a_pass(log) ==
    IF CountPassed(log) > 0 THEN Summary(log) ELSE [built |-> FALSE]

SeleniumTestRunner_generate_summary_report(log) == Summary(log)

\* the results at which the loop meets a key for the first time ("if
\* category not in categories") and inserts its group
Insertions(keys) == {n \in 1..Len(keys) : \A m \in 1..(n - 1) : keys[m] # keys[n]}

\* the result at which the i-th group was inserted: a dict keeps its keys in
\* the order they were inserted
InsertedAt(keys, i) ==
    CHOOSE n \in Insertions(keys) : Cardinality({m \in Insertions(keys) : m < n}) = i - 1

\* the breakdown loop with "passed" incremented for every result
Breakdown_counting_all(keys, oks) ==
    [i \in 1..Cardinality(Insertions(keys)) |->
        LET name == keys[InsertedAt(keys, i)]
        IN  [name |-> name,
             total |-> Cardinality({n \in 1..Len(keys) : keys[n] = name}),
             passed |-> Cardinality({n \in 1..Len(keys) : keys[n] = name})]]

\* the loop that fills a dict of {"total", "passed"} per key: keys[n] is the
\* key of the n-th result, oks[n] whether it passed; "total" is incremented
\* once for every result of the key, "passed" once for every passed one
Breakdown(keys, oks) ==
    [i \in 1..Cardinality(Insertions(keys)) |->
        LET name == keys[InsertedAt(keys, i)]
        IN  [name |-> name,
             total |-> Cardinality({n \in 1..Len(keys) : keys[n] = name}),
             passed |-> Cardinality({n \in 1..Len(keys) : keys[n] = name /\ oks[n]})]]

\* min(self.test_results, ...) raises ValueError on an empty log, after the
\* summary and the two breakdowns were computed and printed
StandaloneTestRunner_generate_summary_report(log) ==
    IF log = << >> THEN Raised("ValueError")
    ELSE [built |-> TRUE,
          total_tests |-> Summary(log).total_tests,
          passed |-> Summary(log).passed,
          failed |-> Summary(log).failed,
          pass_rate |-> Summary(log).pass_rate,
          categories |-> Breakdown([n \in 1..Len(log) |-> log[n].category],
                                   [n \in 1..Len(log) |-> log[n].passed]),
          priorities |-> Breakdown([n \in 1..Len(log) |-> log[n].priority],
                                   [n \in 1..Len(log) |-> log[n].passed])]

\* UserRegistrationTestDemo.display_summary: what it prints; the pass-rate
\* line divides by total_tests unguarded
display_summary(log) ==
    LET total_tests == Len(log)
        total_passed == Cardinality({n \in 1..Len(log) : log[n].result = "PASS"})
    IN  IF total_tests = 0 THEN Raised("ZeroDivisionError")
        ELSE [built |-> TRUE,
              total_tests |-> total_tests,
              passed |-> total_passed,
              failed |-> total_tests - total_passed,
              pass_rate |-> (total_passed * 10000) \div total_tests,
              categories |-> Breakdown([n \in 1..Len(log) |-> log[n].category],
                                       [n \in 1..Len(log) |-> log[n].result = "PASS"])]

----------------------------------------------------------------------------
(* One run of a runner on a fresh instance *)

Runners == {"simulated", "standalone", "selenium", "selenium_standalone", "demo"}

BrowserRunners == {"selenium", "selenium_standalone"}

\* int(time.time()) when the run starts
Epochs == {0, 1762070400}

\* the pairs (random.uniform, random.randint) explored in a whole run: the
\* usual answer and a slow one
UsualDraw == [response_time |-> 1, user_id |-> 1000]

SuiteDraws == {UsualDraw, [response_time |-> 20, user_id |-> 9999]}

NoCall == << >>

Init ==
    /\ runner \in Runners
    /\ pc = "start"
    /\ idx = 0
    /\ cur = 0
    /\ test_results = << >>
    /\ executed = << >>
    /\ env = << >>
    /\ all_results = << >>
    /\ driver = "none"
    /\ faults = 0
    /\ report = NoReport
    /\ call = NoCall
    /\ epoch \in Epochs
    /\ exc = "none"
    /\ run = 1
    /\ status = "running"
    /\ quits = 0
    /\ artifact = "none"
    /\ server = NoServer
    /\ steps = << >>

\* run_full_test_suite / StandaloneTestRunner.run_all_tests up to the first case
StartRun ==
    /\ pc = "start"
    /\ runner \notin BrowserRunners
    /\ pc' = "idle"
    /\ UNCHANGED << steps, status, quits, artifact, server, run, runner, idx, cur, test_results, executed, env, all_results,
                    driver, faults, report, call, epoch, exc >>

\* what setup_driver meets: the browser starts and is configured; the browser
\* cannot be started (webdriver.Chrome raises, self.driver stays None); the
\* browser starts and a statement after the assignment of self.driver raises
SetupOutcomes == {"created", "not_created", "created_not_configured"}

\* setup_driver whose failure is not looked at: the run goes on to its cases
SetupDriver_going_on ==
    /\ pc = "start"
    /\ runner \in BrowserRunners
    /\ \E o \in SetupOutcomes :
          driver' = IF o = "not_created" THEN driver ELSE "open"
    /\ pc' = "idle"
    /\ UNCHANGED << steps, status, quits, artifact, server, run, runner, idx, cur, test_results, executed, env, all_results,
                    faults, report, call, epoch, exc >>

\* setup_driver, called before the try block. SeleniumRegistrationTests lets
\* the exception out of run_all_tests; SeleniumTestRunner.setup_driver returns
\* False and run_all_tests returns None
SetupDriver ==
    /\ pc = "start"
    /\ runner \in BrowserRunners
    /\ \E o \in SetupOutcomes :
          /\ driver' = IF o = "not_created" THEN driver ELSE "open"
          /\ pc' = IF o = "created" THEN "idle"
                   ELSE IF runner = "selenium" THEN "raised" ELSE "aborted"
          /\ exc' = IF o # "created" /\ runner = "selenium" THEN "WebDriverException" ELSE "none"
    /\ UNCHANGED << steps, status, quits, artifact, server, run, runner, idx, cur, test_results, executed, env, all_results,
                    faults, report, call, epoch >>

\* the run method calls the next test of its sequence
BeginCase ==
    /\ pc = "idle"
    /\ idx < Len(Catalog)
    /\ idx' = idx + 1
    /\ cur' = idx + 1
    /\ pc' = "case"
    /\ executed' = Append(executed, Catalog[idx + 1].test_id)
    /\ UNCHANGED << steps, status, quits, artifact, server, run, runner, test_results, env, all_results, driver, faults,
                    report, call, epoch, exc >>

RunSimulatedCase ==
    /\ pc = "case"
    /\ runner = "simulated"
    /\ \E d \in SuiteDraws :
          /\ d = UsualDraw \/ faults < MaxFaults
          /\ LET c == Catalog[cur]
                 r == run_test_case(test_results, c.test_id, c.description, c.test_data, c.expected_result, d.response_time, d.user_id)
             IN  /\ test_results' = r.test_results
                 /\ pc' = IF r.raised THEN "raised" ELSE "idle"
                 /\ exc' = IF r.raised THEN "TypeError" ELSE "none"
                 /\ cur' = IF r.raised THEN cur ELSE 0
                 /\ env' = Append(env, Outcome("answered", ""))
          /\ faults' = IF d = UsualDraw THEN faults ELSE faults + 1
    /\ UNCHANGED << steps, status, quits, artifact, server, run, runner, idx, executed, all_results, driver, report, call, epoch >>

RunStandaloneCase ==
    /\ pc = "case"
    /\ runner = "standalone"
    /\ LET c == Catalog[cur]
       IN  test_results' = StandaloneTestRunner_execute_test(test_results, c.test_id, c.description, c.category, c.priority)
    /\ pc' = "idle"
    /\ cur' = 0
    /\ env' = Append(env, Outcome("answered", ""))
    /\ UNCHANGED << steps, status, quits, artifact, server, run, runner, idx, executed, all_results, driver, faults, report, call, epoch, exc >>

\* one pass of the loop of a run_* method of UserRegistrationTestDemo
RunDemoCase ==
    /\ pc = "case"
    /\ runner = "demo"
    /\ test_results' = Append(test_results, [category |-> Catalog[cur].category,
                                             test |-> Catalog[cur].test_id,
                                             result |-> "PASS"])
    /\ pc' = "idle"
    /\ cur' = 0
    /\ env' = Append(env, Outcome("answered", ""))
    /\ UNCHANGED << steps, status, quits, artifact, server, run, runner, idx, executed, all_results, driver, faults, report, call, epoch, exc >>

\* the target has given the answer o to every case of the run so far (a page
\* that is down, a check that fails on this machine): such runs are explored
\* beyond the budget of departures
SameAnswerSoFar(o) ==
    /\ env # << >>
    /\ \A n \in 1..Len(env) : env[n] = o

\* a test method of SeleniumRegistrationTests; an exception that leaves it
\* leaves run_all_tests through the finally clause
RunSeleniumCase ==
    /\ pc = "case"
    /\ runner = "selenium"
    /\ \E o \in SeleniumOutcomes(Catalog[cur]) :
          /\ \/ o = NominalOutcome(Catalog[cur])
             \/ o.kind = "interrupt"
             \/ faults < MaxFaults
             \/ SameAnswerSoFar(o)
          /\ LET r == RunSeleniumTest(test_results, Catalog[cur], o)
                 left == r.raised # "none"
             IN  /\ test_results' = r.test_results
                 /\ all_results' = IF left THEN all_results
                                   ELSE Append(all_results, r.test_results[Len(r.test_results)])
                 /\ pc' = IF left THEN "teardown" ELSE "idle"
                 /\ exc' = r.raised
                 /\ cur' = IF left THEN cur ELSE 0
          /\ faults' = IF o = NominalOutcome(Catalog[cur]) \/ o.kind = "interrupt"
                          \/ faults >= MaxFaults
                       THEN faults ELSE faults + 1
          /\ env' = Append(env, o)
          /\ steps' = IF Catalog[cur].kind = "form"
                      THEN execute_test_case_steps(Catalog[cur].fields, o)
                      ELSE << >>
    /\ UNCHANGED << status, quits, artifact, server, run, runner, idx, executed, driver, report, call, epoch >>

\* execute_test of SeleniumTestRunner on the next test function
RunBrowserCase ==
    /\ pc = "case"
    /\ runner = "selenium_standalone"
    /\ \E o \in BrowserOutcomes :
          /\ \/ o.kind \in {"check_passed", "interrupt"}
             \/ faults < MaxFaults
             \/ SameAnswerSoFar(o)
          /\ LET c == Catalog[cur]
                 r == SeleniumTestRunner_execute_test(test_results, c.test_id, c.description, TestFunction(c, o))
                 left == r.raised # "none"
             IN  /\ test_results' = r.test_results
                 /\ pc' = IF left THEN "teardown" ELSE "idle"
                 /\ exc' = r.raised
                 /\ cur' = IF left THEN cur ELSE 0
          /\ faults' = IF o.kind \in {"check_passed", "interrupt"} \/ faults >= MaxFaults
                       THEN faults ELSE faults + 1
          /\ env' = Append(env, o)
    /\ UNCHANGED << steps, status, quits, artifact, server, run, runner, idx, executed, all_results, driver, report, call, epoch >>

\* the end of run_full_test_suite: generate_test_report and return
FinishSimulatedRun ==
    /\ pc = "idle"
    /\ runner = "simulated"
    /\ idx = Len(Catalog)
    /\ report' = SimulatedRegistrationTester_generate_test_report(test_results)
    /\ pc' = "done"
    /\ UNCHANGED << steps, status, quits, artifact, server, run, runner, idx, cur, test_results, executed, env, all_results,
                    driver, faults, call, epoch, exc >>

FinishStandaloneRun ==
    /\ pc = "idle"
    /\ runner = "standalone"
    /\ idx = Len(Catalog)
    /\ LET r == StandaloneTestRunner_generate_summary_report(test_results)
       IN  /\ report' = IF r.built THEN r ELSE report
           /\ pc' = IF r.built THEN "done" ELSE "raised"
           /\ exc' = IF r.built THEN "none" ELSE r.raised
    /\ UNCHANGED << steps, status, quits, artifact, server, run, runner, idx, cur, test_results, executed, env, all_results,
                    driver, faults, call, epoch >>

\* the end of UserRegistrationTestDemo.run_all_tests: display_summary
FinishDemoRun ==
    /\ pc = "idle"
    /\ runner = "demo"
    /\ idx = Len(Catalog)
    /\ LET r == display_summary(test_results)
       IN  /\ report' = IF r.built THEN r ELSE report
           /\ pc' = IF r.built THEN "done" ELSE "raised"
           /\ exc' = IF r.built THEN "none" ELSE r.raised
    /\ UNCHANGED << steps, status, quits, artifact, server, run, runner, idx, cur, test_results, executed, env, all_results,
                    driver, faults, call, epoch >>

\* self.test_results = flat_results; the results the test methods returned
\* are dicts, never lists, so flat_results is all_results
FlatResults(results) == results

\* the end of the try block of SeleniumRegistrationTests.run_all_tests;
\* generate_test_report writes the report file, and an OSError of open() or
\* of json.dump leaves run_all_tests through the finally clause
FinishSeleniumRun ==
    /\ pc = "idle"
    /\ runner = "selenium"
    /\ idx = Len(Catalog)
    /\ test_results' = FlatResults(all_results)
    /\ \E written \in BOOLEAN :
          /\ report' = IF written
                       THEN SeleniumRegistrationTests_generate_test_report(FlatResults(all_results))
                       ELSE report
          /\ exc' = IF written THEN "none" ELSE "OSError"
          /\ artifact' = IF written THEN "saved" ELSE "failed"
    /\ pc' = "teardown"
    /\ UNCHANGED << steps, status, quits, server, run, runner, idx, cur, executed, env, all_results, driver, faults,
                    call, epoch >>

\* the end of the try block of SeleniumTestRunner.run_all_tests:
\* generate_summary_report prints the summary and calls save_results_to_json,
\* which catches whatever os.makedirs, open or json.dump raise
FinishBrowserRun ==
    /\ pc = "idle"
    /\ runner = "selenium_standalone"
    /\ idx = Len(Catalog)
    /\ report' = SeleniumTestRunner_generate_summary_report(test_results)
    /\ \E saved \in BOOLEAN : artifact' = IF saved THEN "saved" ELSE "failed"
    /\ pc' = "teardown"
    /\ UNCHANGED << steps, status, quits, server, run, runner, idx, cur, test_results, executed, env, all_results,
                    driver, faults, call, epoch, exc >>

\* teardown_driver after the try block instead of in a finally clause: it is
\* reached only when nothing was raised
TeardownDriver_only_on_return ==
    /\ pc = "teardown"
    /\ driver' = IF driver = "none" \/ exc # "none" THEN driver ELSE "quit"
    /\ quits' = IF driver = "none" \/ exc # "none" THEN quits ELSE quits + 1
    /\ pc' = IF exc = "none" THEN "done" ELSE "raised"
    /\ UNCHANGED << steps, status, artifact, server, run, runner, idx, cur, test_results, executed, env, all_results,
                    faults, report, call, epoch, exc >>

\* the finally clause: teardown_driver, then return or let the exception go on
TeardownDriver ==
    /\ pc = "teardown"
    /\ driver' = IF driver = "none" THEN driver ELSE "quit"
    /\ quits' = IF driver = "none" THEN quits ELSE quits + 1
    /\ pc' = IF exc = "none" THEN "done" ELSE "raised"
    /\ UNCHANGED << steps, status, artifact, server, run, runner, idx, cur, test_results, executed, env, all_results,
                    faults, report, call, epoch, exc >>

Next ==
    \/ StartRun
    \/ SetupDriver
    \/ BeginCase
    \/ RunSimulatedCase
    \/ RunStandaloneCase
    \/ RunSeleniumCase
    \/ RunBrowserCase
    \/ RunDemoCase
    \/ FinishSimulatedRun
    \/ FinishStandaloneRun
    \/ FinishSeleniumRun
    \/ FinishBrowserRun
    \/ FinishDemoRun
    \/ TeardownDriver

Spec == Init /\ [][Next]_vars

----------------------------------------------------------------------------
(* The run method invoked again on the instance of a completed run *)

\* the caller invokes the run method a second time: the instance keeps its
\* attributes (self.test_results, self.driver), the locals are new
RunAgain ==
    /\ pc = "done"
    /\ run < MaxRuns
    /\ run' = run + 1
    /\ pc' = "start"
    /\ idx' = 0
    /\ cur' = 0
    /\ executed' = << >>
    /\ env' = << >>
    /\ all_results' = << >>
    /\ UNCHANGED << steps, status, quits, artifact, server, runner, test_results, driver, faults,
                    report, call, epoch, exc >>

NextRerun == Next \/ RunAgain

SpecRerun == Init /\ [][NextRerun]_vars

----------------------------------------------------------------------------
(* The processes of the browser runners: main of                            *)
(* selenium_registration_tests.py and of selenium_standalone_test.py        *)

\* selenium_registration_tests.main after run_all_tests has left: the final
\* summary when it returned; when it raised, the except clause prints and
\* calls teardown_driver, which quits whatever self.driver holds. main then
\* returns and the interpreter exits with status 0.
SeleniumMain ==
    /\ runner = "selenium"
    /\ pc \in {"done", "raised"}
    /\ driver' = IF pc = "raised" /\ driver # "none" THEN "quit" ELSE driver
    /\ quits' = IF pc = "raised" /\ driver # "none" THEN quits + 1 ELSE quits
    /\ status' = "0"
    /\ pc' = "exited"
    /\ UNCHANGED << steps, artifact, server, run, runner, idx, cur, test_results, executed, env,
                    all_results, faults, report, call, epoch, exc >>

\* selenium_standalone_test.main after run_all_tests has left: it prints one
\* of two lines when run_all_tests returned (a list or None) and returns; an
\* exception that left run_all_tests leaves main and the interpreter exits
\* with status 1.
BrowserMain ==
    /\ runner = "selenium_standalone"
    /\ pc \in {"done", "aborted", "raised"}
    /\ status' = IF pc = "raised" THEN "1" ELSE "0"
    /\ pc' = "exited"
    /\ UNCHANGED << steps, quits, artifact, server, run, runner, idx, cur, test_results, executed,
                    env, all_results, driver, faults, report, call, epoch, exc >>

NextMain == Next \/ SeleniumMain \/ BrowserMain

SpecMain == Init /\ [][NextMain]_vars

----------------------------------------------------------------------------
(* run_selenium_tests.py: main, start_local_server and the thread that runs *)
(* httpd.serve_forever                                                      *)

\* requests the server is given the time to answer
MaxRequests == 2

InitServer ==
    /\ runner = "run_selenium_tests"
    /\ pc = "start"
    /\ idx = 0
    /\ cur = 0
    /\ test_results = << >>
    /\ executed = << >>
    /\ env = << >>
    /\ all_results = << >>
    /\ driver = "none"
    /\ faults = 0
    /\ report = NoReport
    /\ call = NoCall
    /\ epoch = 0
    /\ exc = "none"
    /\ run = 1
    /\ status = "running"
    /\ quits = 0
    /\ artifact = "none"
    /\ server = NoServer
    /\ steps = << >>

\* main up to start_local_server: the script must be in the current
\* directory and check_dependencies must answer True, else main returns
CheckDirectoryAndDependencies ==
    /\ pc = "start"
    /\ \E found \in BOOLEAN, installed \in BOOLEAN :
          /\ pc' = IF found /\ installed THEN "start_server" ELSE "exited"
          /\ status' = IF found /\ installed THEN status ELSE "0"
    /\ UNCHANGED server
    /\ UNCHANGED call
    /\ UNCHANGED << steps, quits, artifact, run, runner, idx, cur, test_results, executed,
                    env, all_results, driver, faults, report, epoch, exc >>

\* start_local_server up to server_thread.start(): TCPServer binds and
\* listens, or raises OSError and the function returns None, None
BindServer ==
    /\ pc = "start_server"
    /\ \E bound \in BOOLEAN :
          /\ server' = IF bound
                       THEN [socket |-> "open", thread |-> "started", served |-> 0,
                             shutdown |-> FALSE]
                       ELSE NoServer
          /\ pc' = IF bound THEN "with" ELSE "ask_url"
    /\ UNCHANGED status
    /\ UNCHANGED call
    /\ UNCHANGED << steps, quits, artifact, run, runner, idx, cur, test_results, executed,
                    env, all_results, driver, faults, report, epoch, exc >>

\* `return httpd, PORT` inside the with statement: TCPServer.__exit__ calls
\* server_close(), which closes the listening socket; main then prints the
\* URL and sleeps
ReturnServer ==
    /\ pc = "with"
    /\ server' = [server EXCEPT !.socket = "closed"]
    /\ pc' = "menu"
    /\ UNCHANGED status
    /\ UNCHANGED call
    /\ UNCHANGED << steps, quits, artifact, run, runner, idx, cur, test_results, executed,
                    env, all_results, driver, faults, report, epoch, exc >>

\* the background thread enters serve_forever: it registers the socket with
\* its selector, which raises ValueError on a closed socket and ends the
\* thread
EnterServeForever ==
    /\ runner = "run_selenium_tests"
    /\ server.thread = "started"
    /\ server' = [server EXCEPT !.thread = IF server.socket = "open" THEN "serving"
                                           ELSE "ended"]
    /\ UNCHANGED << pc, status, call >>
    /\ UNCHANGED << steps, quits, artifact, run, runner, idx, cur, test_results, executed,
                    env, all_results, driver, faults, report, epoch, exc >>

\* the background thread accepts a connection and answers one request
ServeRequest ==
    /\ runner = "run_selenium_tests"
    /\ server.thread = "serving"
    /\ server.socket = "open"
    /\ server.served < MaxRequests
    /\ server' = [server EXCEPT !.served = server.served + 1]
    /\ UNCHANGED << pc, status, call >>
    /\ UNCHANGED << steps, quits, artifact, run, runner, idx, cur, test_results, executed,
                    env, all_results, driver, faults, report, epoch, exc >>

\* no server: main asks for an external URL and returns when none is given
AskTargetUrl ==
    /\ pc = "ask_url"
    /\ \E target_url \in {"", "http://localhost:8080"} :
          /\ pc' = IF target_url = "" THEN "exited" ELSE "menu"
          /\ status' = IF target_url = "" THEN "0" ELSE status
          /\ call' = [target_url |-> target_url]
    /\ UNCHANGED server
    /\ UNCHANGED << steps, quits, artifact, run, runner, idx, cur, test_results, executed,
                    env, all_results, driver, faults, report, epoch, exc >>

\* choice = input(...), before the try statement: an interrupt here leaves
\* main; an invalid choice returns from inside the try statement
ChooseMode ==
    /\ pc = "menu"
    /\ \E choice \in {"1", "2", "3", "other", "KeyboardInterrupt"} :
          /\ pc' = CASE choice = "KeyboardInterrupt" -> "exited"
                      [] choice = "other" -> "finally"
                      [] OTHER -> "tests"
          /\ status' = IF choice = "KeyboardInterrupt" THEN "1" ELSE status
          /\ exc' = IF choice = "KeyboardInterrupt" THEN "KeyboardInterrupt" ELSE exc
          /\ call' = [choice |-> choice]
    /\ UNCHANGED server
    /\ UNCHANGED << steps, quits, artifact, run, runner, idx, cur, test_results, executed,
                    env, all_results, driver, faults, report, epoch >>

\* the body of the try statement: run_demo_tests or run_selenium_tests ends
\* with a list of results, with None, with an exception or with a user
\* interrupt, and the result is printed; both except clauses only print
RunTests ==
    /\ pc = "tests"
    /\ \E ending \in {"results", "None", "Exception", "KeyboardInterrupt"} :
          call' = [choice |-> call.choice, ending |-> ending]
    /\ pc' = "finally"
    /\ UNCHANGED << server, status >>
    /\ UNCHANGED << steps, quits, artifact, run, runner, idx, cur, test_results, executed,
                    env, all_results, driver, faults, report, epoch, exc >>

\* the finally clause: server.shutdown() when a server was started; it
\* returns once serve_forever has ended
ShutdownServer ==
    /\ pc = "finally"
    /\ server' = IF server = NoServer THEN server
                 ELSE [server EXCEPT !.shutdown = TRUE, !.thread = "ended"]
    /\ pc' = "exited"
    /\ status' = "0"
    /\ UNCHANGED call
    /\ UNCHANGED << steps, quits, artifact, run, runner, idx, cur, test_results, executed,
                    env, all_results, driver, faults, report, epoch, exc >>

NextServer ==
    \/ CheckDirectoryAndDependencies
    \/ BindServer
    \/ ReturnServer
    \/ EnterServeForever
    \/ ServeRequest
    \/ AskTargetUrl
    \/ ChooseMode
    \/ RunTests
    \/ ShutdownServer

SpecServer == InitServer /\ [][NextServer]_vars

----------------------------------------------------------------------------
(* generate_dashboard.py: TestResultsDashboard.process_data. Response times *)
(* are in hundredths of a second.                                           *)

\* str.startswith
startswith(text, prefix) ==
    /\ Len(text) >= Len(prefix)
    /\ SubSeq(text, 1, Len(prefix)) = prefix

categorize_test(test_id) ==
    IF \E q \in {"REG_001", "REG_002", "REG_003"} : startswith(test_id, q) THEN "Positive"
    ELSE IF \E q \in {"REG_004", "REG_005", "REG_006", "REG_007"} : startswith(test_id, q)
         THEN "Negative"
    ELSE IF \E q \in {"REG_015", "REG_016"} : startswith(test_id, q) THEN "Security"
    ELSE IF \E q \in {"REG_012", "REG_013"} : startswith(test_id, q) THEN "Boundary"
    ELSE IF \E q \in {"REG_023", "REG_024"} : startswith(test_id, q) THEN "Performance"
    ELSE "Other"

get_priority(test_id) ==
    IF \E q \in {"REG_001", "REG_002", "REG_004", "REG_005", "REG_006", "REG_007",
                  "REG_015", "REG_016"} : startswith(test_id, q)
    THEN "High"
    ELSE IF \E q \in {"REG_003", "REG_012", "REG_013", "REG_023"} : startswith(test_id, q)
         THEN "Medium"
    ELSE "Low"

\* process_data on the loaded test_results. np.mean of the empty list answers
\* nan with a warning; np.min of the empty list raises ValueError. On a
\* non-empty list: np.mean, np.min, np.max, and np.std, the population
\* standard deviation (Sqrt(v) is the largest k with k * k <= v); 300 is the
\* threshold of 3.0 seconds.
process_data(results) ==
    LET rt == [n \in 1..Len(results) |-> results[n].actual_response.response_time]
        categories == [n \in 1..Len(results) |-> categorize_test(results[n].test_id)]
        priorities == [n \in 1..Len(results) |-> get_priority(results[n].test_id)]
        oks == [n \in 1..Len(results) |-> results[n].passed]
        RECURSIVE SumTo(_, _)
        SumTo(seq, n) == IF n = 0 THEN 0 ELSE seq[n] + SumTo(seq, n - 1)
        Sqrt(v) == CHOOSE k \in 0..v : k * k <= v /\ v < (k + 1) * (k + 1)
        total == SumTo(rt, Len(rt))
        squares == [n \in 1..Len(rt) |-> (rt[n] * Len(rt) - total) * (rt[n] * Len(rt) - total)]
    IN  IF results = << >>
        THEN Raised("ValueError")
        ELSE [built |-> TRUE,
              categories |-> Breakdown(categories, oks),
              priorities |-> Breakdown(priorities, oks),
              response_times |-> rt,
              performance_metrics |->
                  [avg_response_time |-> total \div Len(rt),
                   min_response_time |->
                       CHOOSE v \in {rt[n] : n \in 1..Len(rt)} : \A n \in 1..Len(rt) : v <= rt[n],
                   max_response_time |->
                       CHOOSE v \in {rt[n] : n \in 1..Len(rt)} : \A n \in 1..Len(rt) : v >= rt[n],
                   std_response_time |-> Sqrt(SumTo(squares, Len(rt)) \div Len(rt)) \div Len(rt),
                   under_threshold |-> Cardinality({n \in 1..Len(rt) : rt[n] < 300}),
                   total_tests |-> Len(rt)]]

----------------------------------------------------------------------------
(* The report generators called on an instance whose result log holds any  *)
(* results, the empty log included, possibly several times in a row.       *)

ReportRunners ==
    {"simulated", "standalone", "selenium", "selenium_standalone", "demo", "dashboard"}

\* the results a log may hold, with the fields the generator of the runner reads
ReportRecords(r) ==
    CASE r = "standalone" ->
           [test_id : {"REG_001"}, category : {"Positive", "Negative", "Security"},
            priority : {"High", "Low"}, passed : BOOLEAN]
      [] r = "demo" ->
           [category : {"POSITIVE", "NEGATIVE"},
            test : {"REG_001: Successful registration with valid data"},
            result : {"PASS", "FAIL"}]
      [] r = "dashboard" ->
           [test_id : {"REG_001", "REG_015_1"}, passed : BOOLEAN,
            actual_response : [response_time : {131, 300}, status_code : {201, 400}]]
      [] OTHER -> [test_id : {"REG_001", "REG_002"}, passed : BOOLEAN]

\* the logs of at most n results
LogsUpTo(records, n) == UNION {[1..m -> records] : m \in 0..n}

InitReport ==
    /\ runner \in ReportRunners
    /\ pc = "idle"
    /\ idx = 0
    /\ cur = 0
    /\ test_results \in LogsUpTo(ReportRecords(runner), MaxLog)
    /\ executed = << >>
    /\ env = << >>
    /\ all_results = << >>
    /\ driver = "none"
    /\ faults = 0
    /\ report = NoReport
    /\ call = NoCall
    /\ epoch = 0
    /\ exc = "none"
    /\ run = 1
    /\ status = "running"
    /\ quits = 0
    /\ artifact = "none"
    /\ server = NoServer
    /\ steps = << >>

\* one call of a generator, r its result: the exception reaches the caller
Reported(r) ==
    /\ pc = "idle"
    /\ idx < MaxCalls
    /\ idx' = idx + 1
    /\ report' = IF r.built THEN r ELSE report
    /\ pc' = IF r.built THEN "idle" ELSE "raised"
    /\ exc' = IF r.built THEN "none" ELSE r.raised
    /\ UNCHANGED << steps, status, quits, artifact, server, run, runner, cur, test_results, executed, env, all_results,
                    driver, faults, call, epoch >>

CallSimulatedReport ==
    /\ runner = "simulated"
    /\ Reported(SimulatedRegistrationTester_generate_test_report(test_results))

CallStandaloneReport ==
    /\ runner = "standalone"
    /\ Reported(StandaloneTestRunner_generate_summary_report(test_results))

\* the report file may not be writable
CallSeleniumReport ==
    /\ runner = "selenium"
    /\ \E written \in BOOLEAN :
          Reported(IF written THEN SeleniumRegistrationTests_generate_test_report(test_results)
                   ELSE Raised("OSError"))

CallBrowserReport ==
    /\ runner = "selenium_standalone"
    /\ Reported(SeleniumTestRunner_generate_summary_report(test_results))

CallDisplaySummary ==
    /\ runner = "demo"
    /\ Reported(display_summary(test_results))

\* TestResultsDashboard.__init__ of generate_dashboard.py on a loaded report
CallProcessData ==
    /\ runner = "dashboard"
    /\ Reported(process_data(test_results))

NextReport ==
    \/ CallProcessData
    \/ CallSimulatedReport
    \/ CallStandaloneReport
    \/ CallSeleniumReport
    \/ CallBrowserReport
    \/ CallDisplaySummary

SpecReport == InitReport /\ [][NextReport]_vars

----------------------------------------------------------------------------
(* Properties of the simulated executor and of run_test_case (SpecCase) *)

Records == {test_results[i] : i \in 1..Len(test_results)}

HasInjection(data) ==
    \/ Contains(SQL_PATTERN, Get(data, "username"))
    \/ Contains(XSS_PATTERN, Get(data, "username"))

EmailAccepted(data) ==
    Get(data, "email") # << >> /\ Contains(AT_SIGN, Get(data, "email"))

PasswordAccepted(data) == Len(Get(data, "password")) >= 8

\* The validation rules in the documented order
RuleOrder ==
    << "username-empty", "username-length", "email-empty", "email-format",
       "password-empty", "password-length", "SQL-pattern", "XSS-pattern" >>

RuleTriggers(rule, data) ==
    CASE rule = "username-empty" -> Get(data, "username") = << >>
      [] rule = "username-length" -> Len(Get(data, "username")) < 3
      [] rule = "email-empty" -> Get(data, "email") = << >>
      [] rule = "email-format" -> ~Contains(AT_SIGN, Get(data, "email"))
      [] rule = "password-empty" -> Get(data, "password") = << >>
      [] rule = "password-length" -> Len(Get(data, "password")) < 8
      [] rule = "SQL-pattern" -> Contains(SQL_PATTERN, Get(data, "username"))
      [] rule = "XSS-pattern" -> Contains(XSS_PATTERN, Get(data, "username"))

RuleMessage(rule) ==
    CASE rule = "username-empty" -> MSG_USERNAME_REQUIRED
      [] rule = "username-length" -> MSG_USERNAME_LENGTH
      [] rule = "email-empty" -> MSG_EMAIL_REQUIRED
      [] rule = "email-format" -> MSG_EMAIL_FORMAT
      [] rule = "password-empty" -> MSG_PASSWORD_REQUIRED
      [] rule = "password-length" -> MSG_PASSWORD_LENGTH
      [] rule = "SQL-pattern" -> MSG_INVALID_CHARACTERS
      [] rule = "XSS-pattern" -> MSG_INVALID_CHARACTERS
      [] rule = "generic" -> MSG_REGISTRATION_FAILED

Triggered(data) == {i \in 1..Len(RuleOrder) : RuleTriggers(RuleOrder[i], data)}

FirstRule(data) ==
    IF Triggered(data) = {} THEN "generic"
    ELSE RuleOrder[CHOOSE i \in Triggered(data) : \A j \in Triggered(data) : i <= j]

\* C2: passed is true iff (the case expects success and the outcome succeeded)
\* or (the case expects an error, the outcome failed and the required
\* substring, if any, appears in the error message compared case-insensitively).
C2_PassedIffRuleIgnoringCase ==
    \A r \in Records :
        LET x == r.expected_result
            resp == r.actual_response
        IN  r.passed <=>
              \/ x = SUCCESS /\ resp.success
              \/ /\ x # SUCCESS
                 /\ ~resp.success
                 /\ \/ x = NONE
                    \/ Contains(Lower(x), Lower(BodyError(resp.body)))

C6_FirstMatchingRuleMessage ==
    \A r \in Records :
        ~r.actual_response.success =>
            BodyError(r.actual_response.body) = RuleMessage(FirstRule(r.test_data))

\* a rejected payload that triggers an email rule and a password rule at once
C6_Witness ==
    \E r \in Records :
        /\ ~r.actual_response.success
        /\ {3, 4} \cap Triggered(r.test_data) # {}
        /\ {5, 6} \cap Triggered(r.test_data) # {}
        /\ BodyError(r.actual_response.body) \in {MSG_EMAIL_REQUIRED, MSG_EMAIL_FORMAT}

\* C7: the response is success=true with status 201 and a numeric user id
\* exactly when no validation rule triggers, and success=false with status
\* 400 otherwise.
C7_SuccessIffNoRuleTriggers ==
    \A r \in Records :
        LET resp == r.actual_response
        IN  /\ resp.success <=> Triggered(r.test_data) = {}
            /\ resp.success =>
                  /\ resp.status_code = 201
                  /\ DOMAIN resp.body = {"message", "user_id"}
                  /\ resp.body.user_id \in 1000..9999
            /\ ~resp.success =>
                  /\ resp.status_code = 400
                  /\ DOMAIN resp.body = {"error"}

\* an accepted payload and a rejected one in the same log
C7_Witness ==
    /\ \E r \in Records : r.actual_response.status_code = 201 /\ r.test_id = "CASE"
    /\ \E r \in Records : r.actual_response.status_code = 400

\* C8: a payload whose username contains DROP TABLE or <script> is never
\* accepted, whatever its other fields.
C8_InjectionNeverAccepted ==
    \A r \in Records :
        HasInjection(r.test_data) =>
            /\ ~r.actual_response.success
            /\ r.actual_response.status_code = 400

\* an injection username with an otherwise acceptable payload was answered
C8_Witness ==
    \E r \in Records :
        /\ HasInjection(r.test_data)
        /\ EmailAccepted(r.test_data)
        /\ PasswordAccepted(r.test_data)
        /\ r.actual_response.status_code = 400

\* C9 as stated: a payload whose username contains DROP TABLE or <script>
\* always yields "Invalid characters in username", whatever its email and
\* password are.
C9_InjectionAlwaysInvalidCharacters ==
    \A r \in Records :
        HasInjection(r.test_data) =>
            BodyError(r.actual_response.body) = MSG_INVALID_CHARACTERS

\* C9 amended: such a payload yields "Invalid characters in username" exactly
\* when its email is non-empty and contains "@" and its password has at least
\* 8 characters; otherwise the earlier email or password rule answers.
C9_InjectionMessageWhenOthersValid ==
    \A r \in Records :
        HasInjection(r.test_data) =>
            /\ BodyError(r.actual_response.body) = MSG_INVALID_CHARACTERS
                  <=> EmailAccepted(r.test_data) /\ PasswordAccepted(r.test_data)
            /\ ~EmailAccepted(r.test_data) =>
                  BodyError(r.actual_response.body) \in {MSG_EMAIL_REQUIRED, MSG_EMAIL_FORMAT}
            /\ EmailAccepted(r.test_data) /\ ~PasswordAccepted(r.test_data) =>
                  BodyError(r.actual_response.body) \in {MSG_PASSWORD_REQUIRED, MSG_PASSWORD_LENGTH}

\* both sides: an injection answered "Invalid characters in username" and one
\* answered by an email rule
C9_Witness ==
    /\ \E r \in Records :
          /\ Contains(XSS_PATTERN, Get(r.test_data, "username"))
          /\ BodyError(r.actual_response.body) = MSG_INVALID_CHARACTERS
    /\ \E r \in Records : r.test_id = "REG_004"

\* the verdict of a record: what C10 says is a function of payload and
\* expected result alone
Verdict(r) ==
    << r.passed,
       r.actual_response.status_code,
       IF r.actual_response.success THEN r.actual_response.body.message
       ELSE BodyError(r.actual_response.body) >>

\* C10: two executions of run_test_case with the same payload and the same
\* expected result yield the same passed, status code and message, whatever
\* latency and user id were drawn and whatever the log held before.
C10_VerdictDependsOnCaseOnly ==
    \A i, j \in 1..Len(test_results) :
        /\ test_results[i].test_data = test_results[j].test_data
        /\ test_results[i].expected_result = test_results[j].expected_result
        => Verdict(test_results[i]) = Verdict(test_results[j])

\* the same accepted case ran twice, on an empty and on a non-empty log, with
\* different latencies and different user ids
C10_Witness ==
    /\ Len(test_results) = 2
    /\ test_results[1].test_id = "CASE"
    /\ test_results[2].test_id = "CASE"
    /\ test_results[1].passed
    /\ test_results[1].actual_response.success
    /\ test_results[2].actual_response.success
    /\ test_results[1].actual_response.response_time
         # test_results[2].actual_response.response_time
    /\ test_results[1].actual_response.body.user_id
         # test_results[2].actual_response.body.user_id

----------------------------------------------------------------------------
(* Properties of a run (Spec) *)

\* the message a record carries: result_message in SeleniumRegistrationTests,
\* message in SeleniumTestRunner
ResultMessage(r) == IF runner = "selenium" THEN r.result_message ELSE r.message

\* the ways the execution of one case fails
FailureKinds ==
    {"nav_timeout", "fill_failed", "submit_failed", "no_response", "exception",
     "toggle_not_found", "not_enough_fields", "browser_error"}

\* the reason a failed case reports for each of them
FailureReason(c, o) ==
    CASE o.kind = "nav_timeout" -> "Failed to load page"
      [] o.kind = "fill_failed" -> "Failed to fill " \o o.detail
      [] o.kind = "submit_failed" -> "Failed to submit form"
      [] o.kind = "no_response" -> "No response received"
      [] o.kind = "exception" -> "Exception: " \o o.detail
      [] o.kind = "toggle_not_found" -> "Toggle button not found"
      [] o.kind = "not_enough_fields" -> "Not enough form fields"
      [] o.kind = "browser_error" -> c.failure_prefix \o o.detail

\* C1: a completed run of SimulatedRegistrationTester, StandaloneTestRunner or
\* SeleniumRegistrationTests on a fresh instance leaves exactly one record per
\* executed case, in execution order: every case of the catalog was executed,
\* and the i-th record is the record of the i-th executed case.
C1_OneRecordPerCaseInOrder ==
    (pc = "done" /\ runner \in {"simulated", "standalone", "selenium"}) =>
        /\ Len(executed) = Len(Catalog)
        /\ Len(test_results) = Len(executed)
        /\ \A i \in 1..Len(executed) :
              /\ executed[i] = Catalog[i].test_id
              /\ test_results[i].test_id = executed[i]

\* a completed SeleniumRegistrationTests run in which one case failed
C1_Witness ==
    /\ pc = "done"
    /\ runner = "selenium"
    /\ Len(test_results) = 26
    /\ ~test_results[7].passed
    /\ test_results[26].test_id = "REG_021"

\* C3: in the two browser runners a failure while executing a case (page-load
\* timeout, element not found, submit failure, no response, any other
\* exception) leaves exactly one failed record carrying the failure reason,
\* reaches no caller, and does not end the run: the run stops before the end
\* of its catalog only on a keyboard interrupt.
C3_FailureBecomesOneFailedResult ==
    runner \in BrowserRunners =>
        /\ \A i \in 1..Len(env) :
              env[i].kind \in FailureKinds =>
                  /\ i <= Len(test_results)
                  /\ test_results[i].test_id = Catalog[i].test_id
                  /\ ~test_results[i].passed
                  /\ ResultMessage(test_results[i]) = FailureReason(Catalog[i], env[i])
        /\ Len(test_results) <= Len(env)
        /\ exc \in {"none", "KeyboardInterrupt", "WebDriverException", "OSError"}
        /\ exc = "OSError" => Len(test_results) = Len(Catalog)
        /\ exc = "WebDriverException" => executed = << >>
        /\ (pc \in {"teardown", "done", "raised"} /\ exc = "none") => Len(test_results) = Len(Catalog)

\* a completed SeleniumRegistrationTests run whose second case met an
\* exception and whose later cases were all executed
C3_Witness ==
    /\ runner = "selenium"
    /\ pc = "done"
    /\ env[2].kind = "exception"
    /\ ~test_results[2].passed
    /\ Len(test_results) = 26
    /\ test_results[3].passed

\* the verdict a record holds ("passed", or "result" in the demo's tuples)
RecordPassed(r) == IF "passed" \in DOMAIN r THEN r.passed ELSE r.result = "PASS"

\* the state of the i-th case of the catalog
CaseState(i, started, log) ==
    IF i <= Len(log) THEN (IF RecordPassed(log[i]) THEN "Passed" ELSE "Failed")
    ELSE IF i <= Len(started) THEN "Running"
    ELSE "Pending"

\* the steps a case may take
CaseStep(before, after) ==
    \/ before = after
    \/ before = "Pending" /\ after = "Running"
    \/ before = "Running" /\ after \in {"Passed", "Failed"}

\* C5: every case moves Pending -> Running -> Passed or Failed; a recorded
\* result is never changed afterwards, and no case is started a second time.
C5_CaseStateMachine ==
    [][/\ \A i \in 1..Len(Catalog) :
             /\ CaseStep(CaseState(i, executed, test_results), CaseState(i, executed', test_results'))
             /\ i <= Len(test_results) =>
                   /\ i <= Len(test_results')
                   /\ test_results'[i] = test_results[i]
       /\ \A i \in 1..Len(executed') : \A j \in 1..Len(executed') :
             executed'[i] = executed'[j] => i = j
       /\ \A i \in 1..Len(executed) : i <= Len(executed') /\ executed'[i] = executed[i]
      ]_vars

\* a SeleniumRegistrationTests run that recorded a failed and a passed case
\* and is running a third
C5_Witness ==
    /\ runner = "selenium"
    /\ pc = "case"
    /\ cur = 3
    /\ Len(test_results) = 2
    /\ ~test_results[1].passed
    /\ test_results[2].passed

----------------------------------------------------------------------------
(* Properties of the report generators (SpecReport) *)

\* the positions of the log whose result passed
PassedAt(log) == {n \in 1..Len(log) : log[n].passed}

\* C11: for any result log the summary of the simulated and of the Selenium
\* report has total_tests = passed + failed with passed the number of passed
\* results, pass_rate = passed / total_tests * 100 (so between 0 and 100) when
\* total_tests > 0, and pass_rate = 0 on the empty log, which raises no
\* arithmetic error: only the Selenium report file can fail the call.
C11_SummaryCounts ==
    (runner \in {"simulated", "selenium"} /\ idx >= 1) =>
        /\ exc \in {"none", "OSError"}
        /\ exc = "OSError" => runner = "selenium"
        /\ exc = "none" =>
              /\ report.built
              /\ report.total_tests = Len(test_results)
              /\ report.passed = Cardinality(PassedAt(test_results))
              /\ report.total_tests = report.passed + report.failed
              /\ report.pass_rate >= 0 /\ report.pass_rate <= 10000
              /\ report.total_tests > 0 =>
                    /\ report.pass_rate * report.total_tests <= report.passed * 10000
                    /\ report.passed * 10000 < (report.pass_rate + 1) * report.total_tests
              /\ report.total_tests = 0 => report.pass_rate = 0

\* the Selenium report of a log of three results, two of them passed
C11_Witness ==
    /\ runner = "selenium"
    /\ idx >= 1
    /\ report.built
    /\ Len(test_results) = 3
    /\ report.passed = 2
    /\ report.failed = 1
    /\ report.pass_rate = 6666

\* C12: StandaloneTestRunner.generate_summary_report and
\* UserRegistrationTestDemo.display_summary, called on an empty result log,
\* complete without raising and report a pass rate of 0.
C12_EmptyLogReported ==
    (runner \in {"standalone", "demo"} /\ test_results = << >> /\ idx >= 1) =>
        /\ exc = "none"
        /\ pc # "raised"
        /\ report.built
        /\ report.pass_rate = 0

\* the positions of the log whose result has the value v in the field f
ValueAt(log, f, v) == {n \in 1..Len(log) : log[n][f] = v}

\* the first position of the log with the value v in the field f
FirstAt(log, f, v) == CHOOSE n \in ValueAt(log, f, v) : \A m \in ValueAt(log, f, v) : n <= m

RECURSIVE SumOf(_, _)
\* the sum of the field f over the groups
SumOf(groups, f) ==
    IF groups = << >> THEN 0 ELSE groups[1][f] + SumOf(Tail(groups), f)

\* groups is the breakdown of the log by the field f
IsBreakdown(groups, log, f) ==
    /\ \A n \in 1..Len(log) : \E i \in 1..Len(groups) : groups[i].name = log[n][f]
    /\ \A i \in 1..Len(groups) :
          /\ groups[i].total >= 1
          /\ groups[i].total = Cardinality(ValueAt(log, f, groups[i].name))
          /\ groups[i].passed = Cardinality(ValueAt(log, f, groups[i].name) \cap PassedAt(log))
          /\ \A j \in 1..Len(groups) :
                i < j => FirstAt(log, f, groups[i].name) < FirstAt(log, f, groups[j].name)
    /\ SumOf(groups, "total") = Len(log)
    /\ SumOf(groups, "passed") = Cardinality(PassedAt(log))

\* C13: the standalone report groups the results by category and by priority
\* in order of first appearance; each group's total is the number of results
\* with that value and its passed count the number of those that passed, the
\* totals sum to total_tests, the passed counts to passed, and every group has
\* a total of at least 1.
C13_BreakdownsCount ==
    (runner = "standalone" /\ report.built) =>
        /\ IsBreakdown(report.categories, test_results, "category")
        /\ IsBreakdown(report.priorities, test_results, "priority")
        /\ SumOf(report.categories, "total") = report.total_tests
        /\ SumOf(report.categories, "passed") = report.passed

\* a standalone report with two categories in order of first appearance, the
\* first one met again after the second, and a failed result
C13_Witness ==
    /\ runner = "standalone"
    /\ report.built
    /\ Len(test_results) = 3
    /\ test_results[1].category = "Security"
    /\ test_results[2].category = "Negative"
    /\ test_results[3].category = "Security"
    /\ ~test_results[3].passed
    /\ test_results[1].passed
    /\ Len(report.categories) = 2
    /\ report.categories[1].name = "Security"

C15_ReportCoversOneInvocation ==
    (pc = "done" /\ runner \in {"simulated", "standalone", "selenium"})
        => /\ report.built
           /\ report.total_tests = Len(Catalog)

\* ---------------------------------------------------------------------------
\* Properties of the order and identity of the cases of one run (Spec)
\* ---------------------------------------------------------------------------

\* The sequence of categories the specification gives for a run
CategorySequence ==
    << "Positive", "Negative", "Boundary", "Security",
       "UI_UX", "Performance", "Accessibility", "Integration" >>

DemoCategorySequence ==
    << "POSITIVE", "NEGATIVE", "BOUNDARY", "SECURITY",
       "UI_UX", "PERFORMANCE", "ACCESSIBILITY", "INTEGRATION" >>

CategoryRank(category) ==
    CHOOSE n \in 1..Len(CategorySequence) :
        category \in {CategorySequence[n], DemoCategorySequence[n]}

\* The category of the i-th case of the run, in the order of execution
CategoryAt(i) ==
    IF runner = "simulated" THEN SimCategories[i] ELSE Catalog[i].category

CategorisedRunners == {"simulated", "standalone", "demo"}

\* C16: the categories are executed in the sequence Positive, Negative,
\* Boundary, Security, UI_UX, Performance, Accessibility, Integration: of two
\* cases executed in a run, the earlier one never belongs to a category that
\* comes later in that sequence; in particular every Boundary case is
\* executed before any Security case.
C16_CategoriesInSequence ==
    runner \in CategorisedRunners
        => \A i, j \in 1..Len(executed) :
               i < j => CategoryRank(CategoryAt(i)) <= CategoryRank(CategoryAt(j))

\* The identifier a record carries: the test_id field, or for the demo the
\* text of the case
RecordId(r) == IF "test_id" \in DOMAIN r THEN r.test_id ELSE r.test

VariantIds ==
    { "REG_007_1", "REG_007_2", "REG_007_3", "REG_007_4",
      "REG_010_1", "REG_010_2", "REG_010_3", "REG_010_4",
      "REG_015_1", "REG_015_2", "REG_015_3",
      "REG_016_1", "REG_016_2", "REG_016_3",
      "REG_019_username", "REG_019_email", "REG_019_password" }

\* C17: within one run on a fresh instance the identifiers of the recorded
\* results are pairwise distinct, and a completed Selenium run has recorded
\* the derived identifiers REG_007_1..4, REG_010_1..4, REG_015_1..3,
\* REG_016_1..3 and REG_019_<field> of its multi-variant cases, and none of
\* the bare identifiers REG_007, REG_010, REG_015, REG_016, REG_019.
C17_IdentifiersDistinct ==
    /\ \A i, j \in 1..Len(test_results) :
           i # j => RecordId(test_results[i]) # RecordId(test_results[j])
    /\ (runner = "selenium" /\ pc = "done")
           => /\ VariantIds \subseteq {RecordId(test_results[n]) : n \in 1..Len(test_results)}
              /\ \A n \in 1..Len(test_results) :
                     RecordId(test_results[n])
                         \notin {"REG_007", "REG_010", "REG_015", "REG_016", "REG_019"}

C17_Witness ==
    /\ runner = "selenium"
    /\ pc = "done"
    /\ Len(test_results) = Len(SeleniumCatalog)
    /\ \E n \in 1..Len(test_results) : RecordId(test_results[n]) = "REG_019_email"

\* ---------------------------------------------------------------------------
\* Properties of the browser session (Spec)
\* ---------------------------------------------------------------------------

RunEnded == pc \in {"done", "raised", "aborted"}

\* C18: in the browser runners the session is acquired before the first case
\* executes, no case executes while the session is not held, and a session
\* that was acquired is released when the run has ended, whichever way it
\* ended (return, a case raising, the report generation raising).
C18_SessionHeldThenReleased ==
    runner \in BrowserRunners
        => /\ executed # << >> => driver # "none"
           /\ pc = "case" => driver = "open"
           /\ RunEnded => driver # "open"

\* C19: when an interrupt arrives while case k of a Selenium run executes,
\* the interrupt leaves no record and changes none, the session is released
\* before the interrupt leaves run_all_tests, and the log then holds the
\* results of the k-1 cases completed before, as they were returned, in the
\* order of the catalog.
C19_InterruptReleasesAndKeepsLog ==
    /\ []((runner = "selenium" /\ pc = "raised" /\ exc = "KeyboardInterrupt")
             => /\ driver = "quit"
                /\ cur >= 1
                /\ Len(test_results) = cur - 1
                /\ test_results = all_results
                /\ \A n \in 1..Len(test_results) :
                       test_results[n].test_id = Catalog[n].test_id)
    /\ [][(runner = "selenium" /\ exc' = "KeyboardInterrupt")
              => test_results' = test_results]_vars

C19_Witness ==
    /\ runner = "selenium"
    /\ pc = "raised"
    /\ exc = "KeyboardInterrupt"
    /\ cur = 3
    /\ Len(test_results) = 2
    /\ driver = "quit"

\* the run ended in setup_driver
SetupFailed ==
    /\ runner \in BrowserRunners
    /\ \/ driver = "none" /\ pc # "start"
       \/ pc = "aborted"
       \/ pc = "raised" /\ exc = "WebDriverException"

\* C20: when the browser session cannot be created, no case is executed, no
\* record and no report is produced, and the caller can tell the failure from
\* a run whose cases failed: SeleniumTestRunner.run_all_tests returns None
\* and SeleniumRegistrationTests.run_all_tests raises, while a run that
\* returns its result list has a record for every case of the catalog.
C20_SetupFailureRunsNoCase ==
    /\ SetupFailed
          => /\ executed = << >>
             /\ test_results = << >>
             /\ report = NoReport
             /\ IF runner = "selenium_standalone"
                THEN pc = "aborted"
                ELSE pc = "raised" /\ exc = "WebDriverException"
    /\ (runner \in BrowserRunners /\ pc = "done")
          => /\ Len(test_results) = Len(Catalog)
             /\ driver # "none"

C20_Witness ==
    /\ runner \in BrowserRunners
    /\ driver = "none"
    /\ pc \in {"aborted", "raised"}
    /\ executed = << >>

\* ---------------------------------------------------------------------------
\* Properties of the processes of the browser runners (SpecMain)
\* ---------------------------------------------------------------------------

\* C21: the process of a browser runner exits with status 0 whatever the
\* number of cases that failed, and with a non-zero status when, and only
\* when, the setup of the browser session failed (runs that a user interrupt
\* ended are left aside).
C21_NonZeroExitIffSetupFailed ==
    [][(runner \in BrowserRunners /\ pc' = "exited" /\ exc # "KeyboardInterrupt")
          => (status' # "0" <=> SetupFailed)]_vars

\* ---------------------------------------------------------------------------
\* Properties of the report of a browser run (Spec)
\* ---------------------------------------------------------------------------

\* C22: in a browser run whose setup succeeded the report is built, and its
\* JSON file written, once: in one step, taken after every case of the
\* catalog has its result and while the session is still open; and when the
\* try block of the run has been left without an exception the summary has
\* been produced and the JSON file has been attempted, whatever the number of
\* passed cases, zero included (the file is saved unless the file system
\* refuses it).
C22_ReportBuiltOnceBeforeRelease ==
    /\ [][(runner \in BrowserRunners /\ (report' # report \/ artifact' # artifact))
              => /\ report = NoReport
                 /\ artifact = "none"
                 /\ pc = "idle"
                 /\ idx = Len(Catalog)
                 /\ Len(test_results') = Len(Catalog)
                 /\ driver = "open"
                 /\ driver' = "open"]_vars
    /\ []((runner \in BrowserRunners /\ pc \in {"teardown", "done"} /\ exc = "none")
             => /\ report.built
                /\ report.total_tests = Len(Catalog)
                /\ report.passed + report.failed = Len(Catalog)
                /\ artifact # "none")

C22_Witness ==
    /\ runner \in BrowserRunners
    /\ pc = "done"
    /\ report.built
    /\ report.passed = 0
    /\ artifact = "saved"
    /\ driver = "quit"

\* ---------------------------------------------------------------------------
\* Properties of the dashboard (SpecReport)
\* ---------------------------------------------------------------------------

\* C23: process_data on a loaded report whose test_results list is empty
\* completes without raising, and the mean, the minimum, the maximum and the
\* standard deviation of the response times it reports are zero.
C23_EmptyReportProcessed ==
    (runner = "dashboard" /\ test_results = << >> /\ idx > 0)
        => /\ pc # "raised"
           /\ report.built
           /\ report.performance_metrics.avg_response_time = 0
           /\ report.performance_metrics.min_response_time = 0
           /\ report.performance_metrics.max_response_time = 0
           /\ report.performance_metrics.std_response_time = 0

\* ---------------------------------------------------------------------------
\* Properties of one case of the Selenium runner (Spec)
\* ---------------------------------------------------------------------------

\* a case run through execute_test_case has just been recorded
FormCaseRecorded ==
    /\ runner = "selenium"
    /\ pc = "idle"
    /\ idx >= 1
    /\ Catalog[idx].kind = "form"
    /\ Len(env) = idx
    /\ Len(test_results) = idx

\* C24: a case that expects an error is recorded as passed only when the
\* form outcome is not a success: when the page shows a success message,
\* alone or together with an error message, the case is recorded as failed.
C24_ErrorCaseFailsOnSuccessMessage ==
    (FormCaseRecorded /\ Catalog[idx].expected_result_type = "error"
                      /\ env[idx].kind \in {"success_only", "both"})
        => ~test_results[idx].passed

StepOrder == << "navigate", "fill", "submit", "wait", "get_success_message", "get_error_message" >>

StepRank(op) == CHOOSE n \in 1..Len(StepOrder) : StepOrder[n] = op

Ops == {steps[n].op : n \in 1..Len(steps)}

FilledFields == SelectSeq([n \in 1..Len(steps) |-> steps[n]], LAMBDA st : st.op = "fill")

\* C25: execute_test_case performs its steps in the order navigate, fill
\* the fields, submit, wait for the response, read the messages. The first
\* step that fails is the last step performed and the case is recorded as
\* failed with the message of that step; the form is submitted only when the
\* page loaded and every field of the payload was filled, in the order of the
\* payload, and the messages are read only when a response arrived.
C25_StepsInOrderUntilFirstFailure ==
    FormCaseRecorded
        => LET c == Catalog[idx]
               k == env[idx].kind
               result == test_results[idx]
               last == steps[Len(steps)]
           IN  /\ steps # << >>
               /\ steps[1].op = "navigate"
               /\ \A i, j \in 1..Len(steps) :
                      i < j => /\ StepRank(steps[i].op) <= StepRank(steps[j].op)
                               /\ steps[i].op = steps[j].op => steps[i].op = "fill"
               /\ "submit" \in Ops
                      => /\ k \notin {"nav_timeout", "fill_failed"}
                         /\ [n \in 1..Len(FilledFields) |-> FilledFields[n].field] = c.fields
               /\ "get_success_message" \in Ops
                      => /\ {"submit", "wait", "get_error_message"} \subseteq Ops
                         /\ k \in {"success_only", "error_only", "both"}
               /\ k = "nav_timeout"
                      => /\ steps = << Step("navigate", "") >>
                         /\ ~result.passed
                         /\ result.result_message = "Failed to load page"
               /\ k = "fill_failed"
                      => /\ last = Step("fill", env[idx].detail)
                         /\ \A n \in 1..(Len(steps) - 1) : steps[n] # last
                         /\ ~result.passed
                         /\ result.result_message = "Failed to fill " \o env[idx].detail
               /\ k = "submit_failed"
                      => /\ last.op = "submit"
                         /\ ~result.passed
                         /\ result.result_message = "Failed to submit form"
               /\ k = "no_response"
                      => /\ last.op = "wait"
                         /\ ~result.passed
                         /\ result.result_message = "No response received"

C25_Witness ==
    /\ FormCaseRecorded
    /\ env[idx] = Outcome("fill_failed", "phone")
    /\ Len(steps) = 8
    /\ ~test_results[idx].passed

\* ---------------------------------------------------------------------------
\* Properties of the length limits and of the two validation routines
\* (SpecCase)
\* ---------------------------------------------------------------------------

\* a payload whose email contains "@" and whose username holds neither
\* DROP TABLE nor <script>
OtherRulesPass(data) == EmailAccepted(data) /\ ~HasInjection(data)

\* the username clauses of C26: 3 characters with a password of 8 are
\* accepted with status 201, 2 characters are rejected with the message of
\* the username length
UsernameLimitInclusive(r) ==
    LET data == r.test_data
        resp == r.actual_response
    IN  /\ (Len(Get(data, "username")) = 3 /\ Len(Get(data, "password")) = 8)
              => resp.success /\ resp.status_code = 201
        /\ Len(Get(data, "username")) = 2
              => /\ ~resp.success
                 /\ BodyError(resp.body) = MSG_USERNAME_LENGTH

\* C26: with an email containing "@" and a username free of DROP TABLE and
\* <script>, a username of exactly 3 characters with a password of exactly 8
\* characters is accepted with status 201, a username of 2 characters is
\* rejected with "Username must be at least 3 characters", and (the username
\* having 3 characters or more) a password of 7 or fewer characters is
\* rejected with "Password must be at least 8 characters".
C26_LimitsInclusiveAnyShortPassword ==
    \A r \in Records :
        OtherRulesPass(r.test_data) =>
            /\ UsernameLimitInclusive(r)
            /\ (Len(Get(r.test_data, "username")) >= 3 /\ Len(Get(r.test_data, "password")) <= 7)
                  => /\ ~r.actual_response.success
                     /\ BodyError(r.actual_response.body) = MSG_PASSWORD_LENGTH

\* C26 amended: the same, the password clause for a password of 1 to 7
\* characters; a password that is missing or empty is rejected with
\* "Password is required".
C26_LimitsInclusive ==
    \A r \in Records :
        OtherRulesPass(r.test_data) =>
            /\ UsernameLimitInclusive(r)
            /\ Len(Get(r.test_data, "username")) >= 3
                  => /\ Len(Get(r.test_data, "password")) \in 1..7
                        => /\ ~r.actual_response.success
                           /\ BodyError(r.actual_response.body) = MSG_PASSWORD_LENGTH
                     /\ Len(Get(r.test_data, "password")) = 0
                        => /\ ~r.actual_response.success
                           /\ BodyError(r.actual_response.body) = MSG_PASSWORD_REQUIRED

\* a username of exactly 3 characters passes the username rules and a
\* password of exactly 7 characters is answered by the password length rule
C26_Witness ==
    \E r \in Records :
        /\ OtherRulesPass(r.test_data)
        /\ Len(Get(r.test_data, "username")) = 3
        /\ Len(Get(r.test_data, "password")) = 7
        /\ r.actual_response.status_code = 400
        /\ BodyError(r.actual_response.body) = MSG_PASSWORD_LENGTH

\* C27: the two validation routines agree on every payload: _is_valid_data
\* answers false exactly when _get_error_message answers one of its specific
\* messages, so that a rejected payload is never answered "Registration
\* failed" and an accepted payload triggers no rule.
C27_RoutinesAgree ==
    \A r \in Records :
        LET data == r.test_data
        IN  /\ _is_valid_data(data) <=> _get_error_message(data) = MSG_REGISTRATION_FAILED
            /\ ~_is_valid_data(data) => _get_error_message(data) = RuleMessage(FirstRule(data))
            /\ ~r.actual_response.success
                  => BodyError(r.actual_response.body) # MSG_REGISTRATION_FAILED
            /\ r.actual_response.success => Triggered(data) = {}

\* a payload with a username of 2 characters and nothing else wrong, rejected
C27_Witness ==
    \E r \in Records :
        /\ Triggered(r.test_data) = {2}
        /\ ~r.actual_response.success
        /\ BodyError(r.actual_response.body) = MSG_USERNAME_LENGTH

\* ---------------------------------------------------------------------------
\* Properties of the release of the session by the Selenium process (SpecMain)
\* ---------------------------------------------------------------------------

\* C28: in the Selenium runner the session is released at most once per
\* acquisition: on every path through run_all_tests and main, quit() is
\* called exactly once on a driver that was created, never twice.
C28_QuitExactlyOnce ==
    runner = "selenium"
        => /\ quits <= 1
           /\ (pc = "exited" /\ driver # "none") => quits = 1

\* ---------------------------------------------------------------------------
\* Properties of the local test server (SpecServer)
\* ---------------------------------------------------------------------------

ServerStarted == server # NoServer

\* C29: a server that start_local_server returned has its listening socket
\* open, served by the background thread, while the tests run; the socket
\* stays open until main calls server.shutdown(), and main calls it on every
\* path that follows a successful start of the server.
C29_ServerServesUntilShutdown ==
    ServerStarted
        => /\ pc = "tests" => server.socket = "open" /\ server.thread = "serving"
           /\ server.socket = "closed" => server.shutdown
           /\ pc = "exited" => server.shutdown

\* ---------------------------------------------------------------------------
\* Properties of the full simulated run (Spec)
\* ---------------------------------------------------------------------------

\* C30: a full run of run_full_test_suite on a fresh instance ends with
\* total_tests = 12, passed = 12, failed = 0 and a pass rate of 100 (10000
\* hundredths of a percent), whatever latencies, user ids and timestamps are
\* drawn: each of the twelve cases of the catalog is recorded as passed.
C30_FullSimulatedRunAllPass ==
    (runner = "simulated" /\ pc = "done")
        => /\ report.built
           /\ report.total_tests = 12
           /\ report.passed = 12
           /\ report.failed = 0
           /\ report.pass_rate = 10000
           /\ Len(test_results) = 12
           /\ \A i \in 1..Len(test_results) : test_results[i].passed

\* a completed run in which a case drew the slowest answer and the largest
\* user id, started at a timestamp other than 0
C30_Witness ==
    /\ runner = "simulated"
    /\ pc = "done"
    /\ report.built
    /\ report.passed = 12
    /\ faults = 1
    /\ epoch # 0
    /\ \E i \in 1..Len(test_results) :
          /\ test_results[i].actual_response.success
          /\ test_results[i].actual_response.response_time = 20
          /\ test_results[i].actual_response.body.user_id = 9999

====
